---- MODULE Spec2Model ----
(***************************************************************************)
(* Model of pairinteraction's one-particle system (SystemOne.cpp): the     *)
(* symmetry setters, the basis build (initializeBasis) and the build of    *)
(* the interaction operators (initializeInteraction).                      *)
(*                                                                         *)
(* Conventions                                                             *)
(*  - The half-integer quantum numbers j, m and the spin s are stored as   *)
(*    twice their value (j = 1 stands for j = 1/2), so that they are       *)
(*    integers.  l and n are stored as they are.                           *)
(*  - scalar_t is the complex type.  A scalar is a pair <<re, im>> of      *)
(*    integers; the factor 1/sqrt(2) of a symmetrized basis vector is kept *)
(*    as the flag root2 of the coefficient.                                *)
(*  - A species is the tuple of the characters of its name.                *)
(***************************************************************************)
EXTENDS Integers, Sequences, FiniteSets, TLC

VARIABLES
    species,        \* SystemOne::species
    range_n,        \* SystemBase::range_n
    range_l,        \* SystemBase::range_l
    range_j,        \* SystemBase::range_j   (doubled)
    range_m,        \* SystemBase::range_m   (doubled)
    energy_min,     \* SystemBase::energy_min
    energy_max,     \* SystemBase::energy_max
    states_to_add,  \* SystemBase::states_to_add
    sym_reflection, \* SystemOne::sym_reflection
    sym_rotation,   \* SystemOne::sym_rotation (doubled momenta, or ARB)
    dirty,          \* pending-change state of the assembler
    states,         \* SystemBase::states: sequence, position r holds idx r-1
    basisvectors,   \* triplets (row, col, value) of SystemBase::basisvectors
    hamiltonian,    \* triplets (row, col, value) of SystemBase::hamiltonian (field-free part)
    hamiltonian_terms, \* the terms addInteraction has added to SystemBase::hamiltonian
    num_basisvectors, \* number of columns of basisvectors (idx at resize)
    efield,         \* SystemOne::efield, <<x, y, z>>
    bfield,         \* SystemOne::bfield, <<x, y, z>>
    efield_spherical,   \* SystemOne::efield_spherical: component -> scaled scalar
    bfield_spherical,   \* SystemOne::bfield_spherical: component -> scaled scalar
    diamagnetism_terms, \* SystemOne::diamagnetism_terms: <<k, q>> -> scaled scalar
    diamagnetism,   \* SystemOne::diamagnetism
    charge,         \* SystemOne::charge
    ordermax,       \* SystemOne::ordermax
    distance,       \* SystemOne::distance: its decimal exponent (d stands for 10^d),
                    \* or DBL_MAX for std::numeric_limits<double>::max()
    interaction_efield,       \* SystemOne::interaction_efield: component -> matrix
    interaction_bfield,       \* SystemOne::interaction_bfield: component -> matrix
    interaction_diamagnetism, \* SystemOne::interaction_diamagnetism: <<k, q>> -> matrix
    interaction_multipole,    \* SystemOne::interaction_multipole: order -> matrix
    mutations,      \* number of parameter mutator calls so far
    last_call,      \* the last operation called, with its arguments
    outcome,        \* "none", "ok" or the error the last call threw
    last_hook,      \* the hook the last call triggered: "none", "symmetry", "parameter"
    run,            \* what the last initializeInteraction did: ranges, calls, triplets
    warned,         \* whether the last build or incorporate wrote a warning to std::cerr
    pc,              \* "config" before initializeBasis, then "built" or "failed"
    hmatrix,        \* a Hamiltonianmatrix: its entries_ and basis_
    bytes,          \* Hamiltonianmatrix::bytes of that matrix, once serialized
    restored,       \* the Hamiltonianmatrix that deserialize filled from bytes
    USE_COMPLEX     \* the build option: scalar_t is std::complex<double>, or double

serialization == <<hmatrix, bytes, restored>>
build == <<USE_COMPLEX>>
basis_config == <<species, range_n, range_l, range_j, range_m, energy_min, energy_max,
                  states_to_add>>
basis_data == <<states, basisvectors, hamiltonian, num_basisvectors, hamiltonian_terms>>
call_info == <<last_call, outcome, last_hook, run, warned>>
call_ghost == <<run, warned>>
parameters == <<efield, bfield, efield_spherical, bfield_spherical, diamagnetism_terms,
                diamagnetism, charge, ordermax, distance, mutations>>
interaction == <<interaction_efield, interaction_bfield, interaction_diamagnetism,
                 interaction_multipole>>

----------------------------------------------------------------------------
(* Program constants and sentinels *)

\* dtypes.hpp ARB, the "arbitrary momentum" sentinel
ARB == 32767

NA == "NA"
EVEN == "EVEN"
ODD == "ODD"
parity_t == {NA, EVEN, ODD}

\* std::numeric_limits<double>::lowest() and ::max(), as integers no energy reaches
DBL_LOWEST == -100000
DBL_MAX == 100000

Rb == <<"R", "b">>
Cs == <<"C", "s">>

----------------------------------------------------------------------------
(* Bounds of the model *)

\* largest n of the small n restrictions
MaxN == 2
\* largest momentum (doubled) a caller passes to setConservedMomentaUnderRotation
MaxMomentum == 2
\* largest number of parameter mutator calls in one run
MaxMutations == 2

----------------------------------------------------------------------------
(* Helpers *)

Abs(x) == IF x < 0 THEN -x ELSE x

Min(S) == CHOOSE x \in S : \A y \in S : x <= y

\* iteration order of a std::set of numbers
RECURSIVE SortedSeq(_)
SortedSeq(S) == IF S = {} THEN <<>>
                ELSE LET x == Min(S) IN <<x>> \o SortedSeq(S \ {x})

NoCall == [op |-> "none", parity |-> NA, momenta |-> {}]

\* before the first initializeInteraction
NoRun == [erange |-> {}, brange |-> {}, drange |-> {}, orange |-> {},
          calls |-> <<>>, triplets |-> {}]

\* std::unordered_map: a function from the keys present to their values
EmptyMap == [k \in {} |-> 0]

----------------------------------------------------------------------------
(* Symmetry setters *)

\* SystemOne::isRefelectionAndRotationCompatible, on the stored symmetries
isRefelectionAndRotationCompatibleBroken(refl, rot) ==
    IF ARB \in rot \/ refl = NA THEN TRUE
    ELSE \E s \in rot : -s \in rot

isRefelectionAndRotationCompatible(refl, rot) ==
    IF ARB \in rot \/ refl = NA THEN TRUE
    ELSE \A s \in rot : -s \in rot

\* SystemBase::onSymmetryChange
onSymmetryChange == "SymmetryDirty"

\* SystemBase::onParameterChange
onParameterChange(d) == IF d = "SymmetryDirty" THEN d ELSE "ParametersDirty"

setConservedParityUnderReflection(parity) ==
    /\ dirty' = onSymmetryChange
    /\ last_hook' = "symmetry"
    /\ sym_reflection' = parity
    /\ outcome' = IF isRefelectionAndRotationCompatible(parity, sym_rotation)
                  THEN "ok" ELSE "incompatible"
    /\ last_call' = [op |-> "setConservedParityUnderReflection", parity |-> parity,
                     momenta |-> {}]
    /\ UNCHANGED <<build, serialization, basis_config, basis_data, sym_rotation, pc, parameters, interaction,
                   call_ghost>>

\* the guard of the ARB check, as a mutation would drop it
ArbMisuseNever(momenta) == FALSE

ArbMisuse(momenta) == ARB \in momenta /\ Cardinality(momenta) > 1

setConservedMomentaUnderRotation(momenta) ==
    /\ last_call' = [op |-> "setConservedMomentaUnderRotation", parity |-> NA,
                     momenta |-> momenta]
    /\ IF ArbMisuse(momenta)
       THEN /\ outcome' = "arb_misuse"
            /\ last_hook' = "none"
            /\ UNCHANGED <<dirty, sym_rotation>>
       ELSE /\ dirty' = onSymmetryChange
            /\ last_hook' = "symmetry"
            /\ sym_rotation' = momenta
            /\ outcome' = IF isRefelectionAndRotationCompatible(sym_reflection, momenta)
                          THEN "ok" ELSE "incompatible"
    /\ UNCHANGED <<build, serialization, basis_config, basis_data, sym_reflection, pc, parameters, interaction,
                   call_ghost>>

----------------------------------------------------------------------------
(* One-particle states *)

\* StateOne(species, n, l, j, m)
StateOne(sp, n, l, j, m) ==
    [species |-> sp, n |-> n, l |-> l, j |-> j, m |-> m, artificial |-> FALSE]

\* StateOne(label): an artificial state carries no quantum numbers
ArtificialState == [species |-> <<>>, n |-> 0, l |-> 0, j |-> 0, m |-> 0,
                    artificial |-> TRUE]

\* StateOne::getReflected
getReflected(state) == [state EXCEPT !.m = -state.m]

\* StateOne::getEnergy, the external energy function (deterministic, per (n, l, j))
getEnergy(state) == (state.l * 10 + state.j) - (1000 \div (state.n * state.n))

\* SystemBase::checkIsEnergyValid
checkIsEnergyValid(energy) ==
    /\ (energy >= energy_min \/ energy_min = DBL_LOWEST)
    /\ (energy <= energy_max \/ energy_max = DBL_MAX)

\* SystemBase::range on integers: rmin, rmin + 1, ..., up to rmax
range(rmin, rmax) == rmin .. rmax

\* SystemBase::range on floats, in doubled units: rmin, rmin + 1, ... is a step of 2
rangeHalf(rmin, rmax) == {r \in rmin .. rmax : (r - rmin) % 2 = 0}

\* the spin s (doubled) that initializeBasis derives from the species name
Digits == <<"0", "1", "2", "3", "4", "5", "6", "7", "8", "9">>
isdigit(ch) == \E d \in 1 .. 10 : Digits[d] = ch
DigitValue(ch) == (CHOOSE d \in 1 .. 10 : Digits[d] = ch) - 1
SpinOf(sp) == IF isdigit(sp[Len(sp)]) THEN DigitValue(sp[Len(sp)]) - 1 ELSE 1

\* iteration order of std::set<StateOne> (StateOne::operator<)
StateKey(state) ==
    <<IF state.artificial THEN 0 ELSE 1, Len(state.species),
      IF state.species = Rb THEN 0 ELSE 1, state.n, state.l, state.j, state.m>>
RECURSIVE TupleLess(_, _)
TupleLess(a, b) ==
    IF a = <<>> \/ b = <<>> THEN FALSE
    ELSE IF Head(a) # Head(b) THEN Head(a) < Head(b)
    ELSE TupleLess(Tail(a), Tail(b))
RECURSIVE StateSeq(_)
StateSeq(S) ==
    IF S = {} THEN <<>>
    ELSE LET x == CHOOSE x \in S : \A y \in S \ {x} : TupleLess(StateKey(x), StateKey(y))
         IN <<x>> \o StateSeq(S \ {x})

----------------------------------------------------------------------------
(* Basis build *)

\* scalars: <<re, im>>; a basis coefficient is a scalar, divided by sqrt(2) if root2
One == <<1, 0>>
Scale(k, z) == <<k * z[1], k * z[2]>>
\* multiplication by utils::imaginary_unit<scalar_t>()
TimesI(z) == <<-z[2], z[1]>>
\* std::pow(-1, e) for an integer e
PowMinusOne(e) == IF e % 2 = 0 THEN 1 ELSE -1

\* the build in progress: the registry, the triplet buffers and the column counter
EmptyBuild == [status |-> "ok", states |-> <<>>, bv |-> <<>>, ht |-> <<>>, idx |-> 0,
               warned |-> FALSE]

\* enumerated_state<StateOne>(idx, state), an entry of the registry
enumerated_state(idx, state) == [idx |-> idx, state |-> state]

\* states.get<1>().find(state): the position of the state in the registry, 0 if absent
FindState(reg, state) ==
    IF \E r \in 1 .. Len(reg) : reg[r].state = state
    THEN CHOOSE r \in 1 .. Len(reg) : reg[r].state = state
    ELSE 0

\* eigen_triplet_t(row, col, value); for holds the state the row was looked up for
\* (kept for the checks only, no matrix reads it)
Triplet(row, col, value, state) ==
    [row |-> row, col |-> col, value |-> value, for |-> state]

\* SystemOne::addBasisvectors
addBasisvectorsRowAfterPush(b, state, idx, value) ==
    LET found == FindState(b.states, state)
        row == IF found # 0 THEN b.states[found].idx ELSE Len(b.states) + 1
    IN [b EXCEPT !.states = IF found # 0 THEN b.states
                            ELSE Append(b.states, enumerated_state(row, state)),
                 !.bv = Append(b.bv, Triplet(row, idx, value, state))]

addBasisvectors(b, state, idx, value) ==
    LET found == FindState(b.states, state)
        row == IF found # 0 THEN b.states[found].idx ELSE Len(b.states)
    IN [b EXCEPT !.states = IF found # 0 THEN b.states
                            ELSE Append(b.states, enumerated_state(row, state)),
                 !.bv = Append(b.bv, Triplet(row, idx, value, state))]

\* SystemOne::addSymmetrizedBasisvectors
addSymmetrizedBasisvectorsNoSkip(b, state, energy, sym_reflection_local) ==
    LET symm == sym_reflection_local # NA /\ state.m # 0
        b1 == [b EXCEPT !.ht = Append(b.ht, [row |-> b.idx, col |-> b.idx,
                                             value |-> energy])]
        value == [z |-> One, root2 |-> symm]
        b2 == addBasisvectors(b1, state, b.idx, value)
        phase == PowMinusOne(state.l + (state.m - state.j) \div 2)
                   * (IF sym_reflection_local = EVEN THEN 1 ELSE -1)
        value2 == [z |-> Scale(phase, TimesI(value.z)), root2 |-> TRUE]
        b3 == IF symm THEN addBasisvectors(b2, getReflected(state), b.idx, value2)
              ELSE b2
    IN [b3 EXCEPT !.idx = b.idx + 1]

addSymmetrizedBasisvectors(b, state, energy, sym_reflection_local) ==
    LET symm == sym_reflection_local # NA /\ state.m # 0
    IN IF symm /\ state.m < 0 THEN b
       ELSE LET b1 == [b EXCEPT !.ht = Append(b.ht, [row |-> b.idx, col |-> b.idx,
                                                    value |-> energy])]
                value == [z |-> One, root2 |-> symm]
                b2 == addBasisvectors(b1, state, b.idx, value)
                phase == PowMinusOne(state.l + (state.m - state.j) \div 2)
                           * (IF sym_reflection_local = EVEN THEN 1 ELSE -1)
                value2 == [z |-> Scale(phase, TimesI(value.z)), root2 |-> TRUE]
                b3 == IF symm
                      THEN addBasisvectors(b2, getReflected(state), b.idx, value2)
                      ELSE b2
            IN [b3 EXCEPT !.idx = b.idx + 1]

\* the m loop of initializeBasis for one (n, l, j): a throw ends the build
RECURSIVE EnumerateMWithoutMirrorCheck(_, _, _, _, _, _, _)
EnumerateMWithoutMirrorCheck(b, mseq, n, l, j, energy, range_allowed_m) ==
    IF mseq = <<>> \/ b.status # "ok" THEN b
    ELSE LET m == Head(mseq)
             state == StateOne(species, n, l, j, m)
         IN IF Abs(m) > j
            THEN EnumerateMWithoutMirrorCheck(b, Tail(mseq), n, l, j, energy,
                                              range_allowed_m)
            ELSE EnumerateMWithoutMirrorCheck(
                     addSymmetrizedBasisvectors(b, state, energy, sym_reflection),
                     Tail(mseq), n, l, j, energy, range_allowed_m)

RECURSIVE EnumerateM(_, _, _, _, _, _, _)
EnumerateM(b, mseq, n, l, j, energy, range_allowed_m) ==
    IF mseq = <<>> \/ b.status # "ok" THEN b
    ELSE LET m == Head(mseq)
             state == StateOne(species, n, l, j, m)
         IN IF Abs(m) > j
            THEN EnumerateM(b, Tail(mseq), n, l, j, energy, range_allowed_m)
            ELSE IF sym_reflection # NA /\ state.m # 0 /\ -state.m \notin range_allowed_m
            THEN [b EXCEPT !.status = "momentum_not_found"]
            ELSE EnumerateM(addSymmetrizedBasisvectors(b, state, energy, sym_reflection),
                            Tail(mseq), n, l, j, energy, range_allowed_m)

\* the filter of the j loop: the j values of range_adapted_j that are kept for l
ValidJ(l, j, s) == ~(Abs(j - 2 * l) > s \/ j < 0)

\* the m values allowed for one j: the m restriction met with the rotation symmetry
RangeAllowedMNoDefault(j) ==
    IF ARB \notin sym_rotation THEN sym_rotation \cap range_m ELSE range_m

RangeAllowedM(j) ==
    LET range_adapted_m == IF range_m = {} THEN rangeHalf(-j, j) ELSE range_m
    IN IF ARB \notin sym_rotation THEN sym_rotation \cap range_adapted_m
       ELSE range_adapted_m

\* the j loop of initializeBasis for one (n, l)
RECURSIVE EnumerateJ(_, _, _, _, _)
EnumerateJ(b, jseq, n, l, s) ==
    IF jseq = <<>> \/ b.status # "ok" THEN b
    ELSE LET j == Head(jseq)
             energy == getEnergy(StateOne(species, n, l, j, s))
         IN IF ~ValidJ(l, j, s) \/ ~checkIsEnergyValid(energy)
            THEN EnumerateJ(b, Tail(jseq), n, l, s)
            ELSE EnumerateJ(EnumerateM(b, SortedSeq(RangeAllowedM(j)), n, l, j, energy,
                                       RangeAllowedM(j)),
                            Tail(jseq), n, l, s)

\* the l loop of initializeBasis for one n
RECURSIVE EnumerateL(_, _, _, _)
EnumerateL(b, lseq, n, s) ==
    IF lseq = <<>> \/ b.status # "ok" THEN b
    ELSE LET l == Head(lseq)
             range_adapted_j == IF range_j = {} THEN rangeHalf(Abs(2 * l - s), 2 * l + s)
                                ELSE range_j
         IN IF l > n - 1 \/ l < 0
            THEN EnumerateL(b, Tail(lseq), n, s)
            ELSE EnumerateL(EnumerateJ(b, SortedSeq(range_adapted_j), n, l, s),
                            Tail(lseq), n, s)

\* the n loop of initializeBasis
RECURSIVE EnumerateN(_, _, _)
EnumerateN(b, nseq, s) ==
    IF nseq = <<>> \/ b.status # "ok" THEN b
    ELSE LET n == Head(nseq)
             range_adapted_l == IF range_l = {} THEN range(0, n - 1) ELSE range_l
         IN EnumerateN(EnumerateL(b, SortedSeq(range_adapted_l), n, s), Tail(nseq), s)

\* first loop over states_to_add: already registered, or of the wrong species
RECURSIVE CheckUserStatesArtificialToo(_, _)
CheckUserStatesArtificialToo(b, useq) ==
    IF useq = <<>> \/ b.status # "ok" THEN b
    ELSE LET state == Head(useq)
         IN IF FindState(b.states, state) # 0
            THEN [b EXCEPT !.status = "already_contained"]
            ELSE IF state.species # species
            THEN [b EXCEPT !.status = "wrong_species"]
            ELSE CheckUserStatesArtificialToo(b, Tail(useq))

RECURSIVE CheckUserStates(_, _)
CheckUserStates(b, useq) ==
    IF useq = <<>> \/ b.status # "ok" THEN b
    ELSE LET state == Head(useq)
         IN IF FindState(b.states, state) # 0
            THEN [b EXCEPT !.status = "already_contained"]
            ELSE IF ~state.artificial /\ state.species # species
            THEN [b EXCEPT !.status = "wrong_species"]
            ELSE CheckUserStates(b, Tail(useq))

\* the warning of the second loop: only permutation symmetry can be applied to
\* an artificial state
WarnsForArtificial(state) ==
    state.artificial /\ (sym_reflection # NA \/ ARB \notin sym_rotation)

\* second loop over states_to_add: symmetrize and add
RECURSIVE AddUserStatesKeepRotation(_, _)
AddUserStatesKeepRotation(b, useq) ==
    IF useq = <<>> \/ b.status # "ok" THEN b
    ELSE LET state == Head(useq)
             energy == IF state.artificial THEN 0 ELSE getEnergy(state)
             sym_reflection_local == IF state.artificial THEN NA ELSE sym_reflection
             sym_rotation_local == sym_rotation
             bw == [b EXCEPT !.warned = b.warned \/ WarnsForArtificial(state)]
         IN IF ARB \notin sym_rotation_local /\ state.m \notin sym_rotation_local
            THEN AddUserStatesKeepRotation(bw, Tail(useq))
            ELSE IF /\ sym_reflection_local # NA
                    /\ state.m # 0
                    /\ getReflected(state) \notin states_to_add
            THEN [bw EXCEPT !.status = "reflected_not_found"]
            ELSE AddUserStatesKeepRotation(
                     addSymmetrizedBasisvectors(bw, state, energy, sym_reflection_local),
                     Tail(useq))

RECURSIVE AddUserStates(_, _)
AddUserStates(b, useq) ==
    IF useq = <<>> \/ b.status # "ok" THEN b
    ELSE LET state == Head(useq)
             energy == IF state.artificial THEN 0 ELSE getEnergy(state)
             sym_reflection_local == IF state.artificial THEN NA ELSE sym_reflection
             sym_rotation_local == IF state.artificial THEN {ARB} ELSE sym_rotation
             bw == [b EXCEPT !.warned = b.warned \/ WarnsForArtificial(state)]
         IN IF ARB \notin sym_rotation_local /\ state.m \notin sym_rotation_local
            THEN AddUserStates(bw, Tail(useq))
            ELSE IF /\ sym_reflection_local # NA
                    /\ state.m # 0
                    /\ getReflected(state) \notin states_to_add
            THEN [bw EXCEPT !.status = "reflected_not_found"]
            ELSE AddUserStates(addSymmetrizedBasisvectors(bw, state, energy,
                                                          sym_reflection_local),
                               Tail(useq))

\* the guard of the first throw of initializeBasis
BasisIsInfiniteBothOpen ==
    range_n = {} /\ (energy_min = DBL_LOWEST /\ energy_max = DBL_MAX)

BasisIsInfinite ==
    range_n = {} /\ (energy_min = DBL_LOWEST \/ energy_max = DBL_MAX)

\* SystemOne::initializeBasis, as the build it leaves behind
initializeBasisResult ==
    IF BasisIsInfinite THEN [EmptyBuild EXCEPT !.status = "infinite_basis"]
    ELSE IF range_n = {} THEN [EmptyBuild EXCEPT !.status = "not_implemented"]
    ELSE LET s == SpinOf(species)
             enumerated == EnumerateN(EmptyBuild, SortedSeq(range_n), s)
             checked == CheckUserStates(enumerated, StateSeq(states_to_add))
         IN AddUserStates(checked, StateSeq(states_to_add))

initializeBasis ==
    /\ pc = "config"
    /\ LET b == initializeBasisResult
       IN /\ states' = b.states
          /\ outcome' = b.status
          /\ warned' = b.warned
          /\ IF b.status = "ok"
             THEN /\ basisvectors' = b.bv
                  /\ hamiltonian' = b.ht
                  /\ num_basisvectors' = b.idx
                  /\ pc' = "built"
             ELSE /\ UNCHANGED <<basisvectors, hamiltonian, num_basisvectors>>
                  /\ pc' = "failed"
    /\ last_call' = [NoCall EXCEPT !.op = "initializeBasis"]
    /\ last_hook' = "none"
    /\ UNCHANGED <<build, serialization, basis_config, sym_reflection, sym_rotation, dirty, parameters,
                   interaction, hamiltonian_terms, run>>

----------------------------------------------------------------------------
(* Fields and parameters *)

\* complex arithmetic on pairs <<re, im>>
Zero == <<0, 0>>
Add(a, b) == <<a[1] + b[1], a[2] + b[2]>>
Sub(a, b) == <<a[1] - b[1], a[2] - b[2]>>
Mul(a, b) == <<a[1] * b[1] - a[2] * b[2], a[1] * b[2] + a[2] * b[1]>>
Conj(a) == <<a[1], -a[2]>>

\* A scaled scalar [z, e2] stands for z / sqrt(2)^e2: the fields are integers,
\* and the spherical components and the matrices are kept exact this way.
Scaled(z, e2) == [z |-> z, e2 |-> e2]

\* SystemOne::changeToSphericalbasis; the real overload, taken only with a zero
\* y component, gives the same values with imaginary part 0
changeToSphericalbasis(field) ==
    [k \in {-1, 0, 1} |->
        IF k = 1 THEN Scaled(<<-field[1], -field[2]>>, 1)
        ELSE IF k = -1 THEN Scaled(<<field[1], -field[2]>>, 1)
        ELSE Scaled(<<field[3], 0>>, 0)]

\* the six diamagnetism_terms setBfield derives from bfield_spherical
DiamagnetismTerms(sph) ==
    LET b0 == sph[0].z
        bp == sph[1].z
        bm == sph[-1].z
    IN [k \in {<<0, 0>>, <<2, 0>>, <<2, 1>>, <<2, -1>>, <<2, 2>>, <<2, -2>>} |->
          IF k = <<0, 0>> THEN Scaled(Sub(Mul(b0, b0), Mul(bp, bm)), 0)
          ELSE IF k = <<2, 0>> THEN Scaled(Add(Scale(2, Mul(b0, b0)), Mul(bp, bm)), 2)
          ELSE IF k = <<2, 1>> THEN Scaled(Mul(b0, bm), 1)
          ELSE IF k = <<2, -1>> THEN Scaled(Mul(b0, bp), 1)
          ELSE IF k = <<2, 2>> THEN Scaled(Mul(bm, bm), 2)
          ELSE Scaled(Mul(bp, bp), 2)]

\* a parameter mutator: the hook, and the bookkeeping of the call
ParameterCallClearingCache(op) ==
    /\ mutations < MaxMutations
    /\ mutations' = mutations + 1
    /\ dirty' = onParameterChange(dirty)
    /\ last_hook' = "parameter"
    /\ last_call' = [NoCall EXCEPT !.op = op]
    /\ interaction_efield' = EmptyMap
    /\ interaction_bfield' = EmptyMap
    /\ interaction_diamagnetism' = EmptyMap
    /\ interaction_multipole' = EmptyMap
    /\ UNCHANGED <<build, serialization, basis_config, basis_data, sym_reflection, sym_rotation, pc, call_ghost>>

ParameterCallWithoutHook(op) ==
    /\ mutations < MaxMutations
    /\ mutations' = mutations + 1
    /\ dirty' = dirty
    /\ last_hook' = "none"
    /\ last_call' = [NoCall EXCEPT !.op = op]
    /\ UNCHANGED <<build, serialization, basis_config, basis_data, sym_reflection, sym_rotation, pc, interaction,
                   call_ghost>>

ParameterCall(op) ==
    /\ mutations < MaxMutations
    /\ mutations' = mutations + 1
    /\ dirty' = onParameterChange(dirty)
    /\ last_hook' = "parameter"
    /\ last_call' = [NoCall EXCEPT !.op = op]
    /\ UNCHANGED <<build, serialization, basis_config, basis_data, sym_reflection, sym_rotation, pc, interaction,
                   call_ghost>>

\* the guard of the throw of the real overload of changeToSphericalbasis
NeedsComplex(field) == ~USE_COMPLEX /\ field[2] # 0

setEfield(field) ==
    /\ ParameterCall("setEfield")
    /\ efield' = field
    /\ IF NeedsComplex(field)
       THEN /\ outcome' = "complex_needed"
            /\ UNCHANGED efield_spherical
       ELSE /\ outcome' = "ok"
            /\ efield_spherical' = changeToSphericalbasis(field)
    /\ UNCHANGED <<bfield, bfield_spherical, diamagnetism_terms, diamagnetism, charge,
                   ordermax, distance>>

setBfieldStaleTerms(field) ==
    /\ ParameterCall("setBfield")
    /\ bfield' = field
    /\ IF NeedsComplex(field)
       THEN /\ outcome' = "complex_needed"
            /\ UNCHANGED <<bfield_spherical, diamagnetism_terms>>
       ELSE /\ outcome' = "ok"
            /\ bfield_spherical' = changeToSphericalbasis(field)
            /\ diamagnetism_terms' = DiamagnetismTerms(changeToSphericalbasis(bfield))
    /\ UNCHANGED <<efield, efield_spherical, diamagnetism, charge, ordermax, distance>>

setBfield(field) ==
    /\ ParameterCall("setBfield")
    /\ bfield' = field
    /\ IF NeedsComplex(field)
       THEN /\ outcome' = "complex_needed"
            /\ UNCHANGED <<bfield_spherical, diamagnetism_terms>>
       ELSE /\ outcome' = "ok"
            /\ bfield_spherical' = changeToSphericalbasis(field)
            /\ diamagnetism_terms' = DiamagnetismTerms(changeToSphericalbasis(field))
    /\ UNCHANGED <<efield, efield_spherical, diamagnetism, charge, ordermax, distance>>

enableDiamagnetism(enable) ==
    /\ ParameterCall("enableDiamagnetism")
    /\ outcome' = "ok"
    /\ diamagnetism' = enable
    /\ UNCHANGED <<efield, bfield, efield_spherical, bfield_spherical, diamagnetism_terms,
                   charge, ordermax, distance>>

setIonCharge(c) ==
    /\ ParameterCall("setIonCharge")
    /\ outcome' = "ok"
    /\ charge' = c
    /\ UNCHANGED <<efield, bfield, efield_spherical, bfield_spherical, diamagnetism_terms,
                   diamagnetism, ordermax, distance>>

setRydIonOrder(o) ==
    /\ ParameterCall("setRydIonOrder")
    /\ outcome' = "ok"
    /\ ordermax' = o
    /\ UNCHANGED <<efield, bfield, efield_spherical, bfield_spherical, diamagnetism_terms,
                   diamagnetism, charge, distance>>

setRydIonDistance(d) ==
    /\ ParameterCall("setRydIonDistance")
    /\ outcome' = "ok"
    /\ distance' = d
    /\ UNCHANGED <<efield, bfield, efield_spherical, bfield_spherical, diamagnetism_terms,
                   diamagnetism, charge, ordermax>>

----------------------------------------------------------------------------
(* The matrix-element source (external) and the selection rules *)

\* a deterministic, non-zero, non-symmetric integer per pair of states
Elem(tag, r, c) ==
    1 + ((tag + 2 * r.n + 3 * r.l + 5 * r.j + 7 * (r.m + 8)
              + 11 * c.n + 13 * c.l + 17 * c.j + 19 * (c.m + 8)) % 5)
getElectricDipole(r, c) == Elem(1, r, c)
getMagneticDipole(r, c) == Elem(2, r, c)
getDiamagnetism(r, c, k) == Elem(3 + k, r, c)
getElectricMultipole(r, c, order) == Elem(7 + order, r, c)

\* selectionRulesMultipoleNew(state1, state2, kappa, q)  (j, m doubled)
selectionRulesMultipoleNew(state1, state2, kappa, q) ==
    /\ Abs(state1.l - state2.l) <= kappa
    /\ kappa % 2 = Abs(state1.l - state2.l) % 2
    /\ Abs(state1.j - state2.j) <= 2 * kappa
    /\ state1.j + state2.j >= 2 * kappa
    /\ state1.m = state2.m + 2 * q
    /\ Abs(q) <= kappa

\* selectionRulesMultipoleNew(state1, state2, kappa)
selectionRulesMultipoleAnyQ(state1, state2, kappa) ==
    /\ Abs(state1.l - state2.l) <= kappa
    /\ kappa % 2 = Abs(state1.l - state2.l) % 2
    /\ Abs(state1.j - state2.j) <= 2 * kappa
    /\ state1.j + state2.j >= 2 * kappa
    /\ Abs(state1.m - state2.m) <= 2 * kappa

\* selectionRulesMomentumNew(state1, state2, q)
selectionRulesMomentumNew(state1, state2, q) ==
    /\ state1.l = state2.l
    /\ Abs(state1.j - state2.j) <= 2
    /\ state1.m = state2.m + 2 * q
    /\ Abs(q) <= 1

----------------------------------------------------------------------------
(* Interaction operators *)

\* std::abs(value) > tolerance (1e-24): the fields are integers, so every
\* non-zero scaled scalar is above the tolerance
AboveTolerance(value) == value.z # Zero

\* the components and orders initializeInteraction has to build
erangeIgnoringCache ==
    {i \in DOMAIN efield_spherical : i >= 0 /\ AboveTolerance(efield_spherical[i])}

erange ==
    {i \in DOMAIN efield_spherical :
        /\ i >= 0
        /\ AboveTolerance(efield_spherical[i])
        /\ -i \notin DOMAIN interaction_efield}
brangeWithoutZero ==
    {i \in DOMAIN bfield_spherical :
        /\ i > 0
        /\ AboveTolerance(bfield_spherical[i])
        /\ -i \notin DOMAIN interaction_bfield}

brange ==
    {i \in DOMAIN bfield_spherical :
        /\ i >= 0
        /\ AboveTolerance(bfield_spherical[i])
        /\ -i \notin DOMAIN interaction_bfield}
drange ==
    {i \in DOMAIN diamagnetism_terms :
        /\ i[2] >= 0
        /\ diamagnetism
        /\ AboveTolerance(diamagnetism_terms[i])
        /\ i \notin DOMAIN interaction_diamagnetism}
orange ==
    IF charge # 0 THEN {order \in 1 .. ordermax : order \notin DOMAIN interaction_multipole}
    ELSE {}

\* the registry entries the double loop does not skip
RealEntries == {r \in 1 .. Len(states) : ~states[r].state.artificial}
StateAt(idx) == states[idx + 1].state
RealPairs == {<<states[r].idx, states[c].idx>> : r \in RealEntries, c \in RealEntries}

\* The loops over erange and brange stop at the first component whose selection
\* rule holds.  The ranges are walked in ascending order here; the rule on m
\* holds for one component at most, so the order does not change the result.
EfieldPasses(p, i) ==
    /\ ~(i = 0 /\ p[1] < p[2])
    /\ selectionRulesMultipoleNew(StateAt(p[1]), StateAt(p[2]), 1, i)
BfieldPasses(p, i) ==
    /\ ~(i = 0 /\ p[1] < p[2])
    /\ selectionRulesMomentumNew(StateAt(p[1]), StateAt(p[2]), i)

\* the canonical triplets of one operator: (row, column) -> value
interaction_efield_triplets(i) ==
    [p \in {q \in RealPairs :
               EfieldPasses(q, i) /\ \A k \in erange : k < i => ~EfieldPasses(q, k)}
       |-> <<getElectricDipole(StateAt(p[1]), StateAt(p[2])), 0>>]
interaction_bfield_triplets(i) ==
    [p \in {q \in RealPairs :
               BfieldPasses(q, i) /\ \A k \in brange : k < i => ~BfieldPasses(q, k)}
       |-> <<getMagneticDipole(StateAt(p[1]), StateAt(p[2])), 0>>]
\* in units of 1 / (8 * electron_rest_mass)
interaction_diamagnetism_triplets(i) ==
    [p \in {q \in RealPairs :
               /\ ~(i[2] = 0 /\ q[1] < q[2])
               /\ selectionRulesMultipoleNew(StateAt(q[1]), StateAt(q[2]), i[1], i[2])}
       |-> <<getDiamagnetism(StateAt(p[1]), StateAt(p[2]), i[1]), 0>>]
\* in units of coulombs_constant * elementary_charge
interaction_multipole_triplets(order) ==
    [p \in {q \in RealPairs :
               /\ charge # 0
               /\ StateAt(q[1]).m - StateAt(q[2]).m = 0
               /\ selectionRulesMultipoleAnyQ(StateAt(q[1]), StateAt(q[2]), order)}
       |-> <<-getElectricMultipole(StateAt(p[1]), StateAt(p[2]), order), 0>>]

\* a call to the matrix-element source or to a selection rule, on the states
\* with idx row and col; a bulk call on states_converted has row = col = -1
Call(name, key, row, col) == [call |-> name, key |-> key, row |-> row, col |-> col]
BulkCall(name, key) == Call(name, key, -1, -1)

\* iteration order of a vector of keys
RECURSIVE TupleSeq(_)
TupleSeq(S) ==
    IF S = {} THEN <<>>
    ELSE LET x == CHOOSE x \in S : \A y \in S \ {x} : TupleLess(x, y)
         IN <<x>> \o TupleSeq(S \ {x})

\* the precalculate calls, in the order of the code
RECURSIVE PrecalculateMomentum(_, _)
PrecalculateMomentum(name, comps) ==
    IF comps = <<>> THEN <<>>
    ELSE LET i == Head(comps)
         IN <<BulkCall(name, <<i>>)>>
            \o (IF i # 0 THEN <<BulkCall(name, <<-i>>)>> ELSE <<>>)
            \o PrecalculateMomentum(name, Tail(comps))
RECURSIVE PrecalculateDiamagnetism(_)
PrecalculateDiamagnetism(keys) ==
    IF keys = <<>> THEN <<>>
    ELSE LET i == Head(keys)
         IN <<BulkCall("precalculateDiamagnetism", i)>>
            \o (IF i[2] # 0 THEN <<BulkCall("precalculateDiamagnetism", <<i[1], -i[2]>>)>>
                ELSE <<>>)
            \o PrecalculateDiamagnetism(Tail(keys))
PrecalculateMultipole ==
    IF charge # 0
    THEN [order \in 1 .. ordermax |-> BulkCall("precalculateMultipole", <<order>>)]
    ELSE <<>>
PrecalculateCalls ==
    PrecalculateMomentum("precalculateElectricMomentum", SortedSeq(erange))
    \o PrecalculateMomentum("precalculateMagneticMomentum", SortedSeq(brange))
    \o PrecalculateDiamagnetism(TupleSeq(drange))
    \o PrecalculateMultipole

\* the calls the loop body makes for the pair (r, c) of idx
RECURSIVE EfieldCalls(_, _, _)
EfieldCalls(r, c, comps) ==
    IF comps = <<>> THEN <<>>
    ELSE LET i == Head(comps)
         IN IF i = 0 /\ r < c THEN EfieldCalls(r, c, Tail(comps))
            ELSE <<Call("selectionRulesMultipoleNew", <<1, i>>, r, c)>>
                 \o (IF selectionRulesMultipoleNew(StateAt(r), StateAt(c), 1, i)
                     THEN <<Call("getElectricDipole", <<i>>, r, c)>>
                     ELSE EfieldCalls(r, c, Tail(comps)))
RECURSIVE BfieldCalls(_, _, _)
BfieldCalls(r, c, comps) ==
    IF comps = <<>> THEN <<>>
    ELSE LET i == Head(comps)
         IN IF i = 0 /\ r < c THEN BfieldCalls(r, c, Tail(comps))
            ELSE <<Call("selectionRulesMomentumNew", <<i>>, r, c)>>
                 \o (IF selectionRulesMomentumNew(StateAt(r), StateAt(c), i)
                     THEN <<Call("getMagneticDipole", <<i>>, r, c)>>
                     ELSE BfieldCalls(r, c, Tail(comps)))
RECURSIVE DiamagnetismCalls(_, _, _)
DiamagnetismCalls(r, c, keys) ==
    IF keys = <<>> THEN <<>>
    ELSE LET i == Head(keys)
         IN IF i[2] = 0 /\ r < c THEN DiamagnetismCalls(r, c, Tail(keys))
            ELSE <<Call("selectionRulesMultipoleNew", i, r, c)>>
                 \o (IF selectionRulesMultipoleNew(StateAt(r), StateAt(c), i[1], i[2])
                     THEN <<Call("getDiamagnetism", i, r, c)>>
                     ELSE <<>>)
                 \o DiamagnetismCalls(r, c, Tail(keys))
RECURSIVE MultipoleCalls(_, _, _)
MultipoleCalls(r, c, orders) ==
    IF orders = <<>> THEN <<>>
    ELSE LET order == Head(orders)
         IN <<Call("selectionRulesMultipoleNew", <<order>>, r, c)>>
            \o (IF selectionRulesMultipoleAnyQ(StateAt(r), StateAt(c), order)
                THEN <<Call("getElectricMultipole", <<order>>, r, c)>>
                ELSE <<>>)
            \o MultipoleCalls(r, c, Tail(orders))
PairCalls(r, c) ==
    EfieldCalls(r, c, SortedSeq(erange))
    \o BfieldCalls(r, c, SortedSeq(brange))
    \o DiamagnetismCalls(r, c, TupleSeq(drange))
    \o (IF charge # 0 /\ StateAt(r).m - StateAt(c).m = 0
        THEN MultipoleCalls(r, c, SortedSeq(orange))
        ELSE <<>>)

\* the pairs the double loop passes over: c.state.isArtificial() or
\* r.state.isArtificial()
SkipsPairIfBothArtificial(r, c) == StateAt(r).artificial /\ StateAt(c).artificial

SkipsPair(r, c) == StateAt(c).artificial \/ StateAt(r).artificial

\* the double loop: columns outside, rows inside
RECURSIVE RowCalls(_, _)
RowCalls(r, c) ==
    IF r >= Len(states) THEN <<>>
    ELSE (IF SkipsPair(r, c) THEN <<>> ELSE PairCalls(r, c)) \o RowCalls(r + 1, c)
RECURSIVE LoopCalls(_)
LoopCalls(c) ==
    IF c >= Len(states) THEN <<>>
    ELSE RowCalls(0, c) \o LoopCalls(c + 1)

\* the canonical triplets the run emits: <<family, key, row, col>>
EmittedTriplets ==
    UNION {{<<"efield", <<i>>, p>> : p \in DOMAIN interaction_efield_triplets(i)} :
              i \in erange}
    \cup UNION {{<<"bfield", <<i>>, p>> : p \in DOMAIN interaction_bfield_triplets(i)} :
                   i \in brange}
    \cup UNION {{<<"diamagnetism", i, p>> : p \in DOMAIN interaction_diamagnetism_triplets(i)} :
                   i \in drange}
    \cup UNION {{<<"multipole", <<i>>, p>> : p \in DOMAIN interaction_multipole_triplets(i)} :
                   i \in orange}

\* what one initializeInteraction does before it builds the operators; it
\* returns at once if there is nothing to do
InteractionRunLoopFirst ==
    IF erange = {} /\ brange = {} /\ drange = {} /\ orange = {} THEN NoRun
    ELSE [erange |-> erange, brange |-> brange, drange |-> drange, orange |-> orange,
          calls |-> LoopCalls(0) \o PrecalculateCalls,
          triplets |-> EmittedTriplets]

InteractionRun ==
    IF erange = {} /\ brange = {} /\ drange = {} /\ orange = {} THEN NoRun
    ELSE [erange |-> erange, brange |-> brange, drange |-> drange, orange |-> orange,
          calls |-> PrecalculateCalls \o LoopCalls(0),
          triplets |-> EmittedTriplets]

\* entry (r, c) of a canonical operator; with lower, of its selfadjointView<Eigen::Lower>
EntryAsStored(triplets, r, c, lower) ==
    IF <<r, c>> \in DOMAIN triplets THEN triplets[<<r, c>>] ELSE Zero

Entry(triplets, r, c, lower) ==
    IF lower /\ r < c
    THEN (IF <<c, r>> \in DOMAIN triplets THEN Conj(triplets[<<c, r>>]) ELSE Zero)
    ELSE (IF <<r, c>> \in DOMAIN triplets THEN triplets[<<r, c>>] ELSE Zero)

RECURSIVE SumOver(_, _)
SumOver(f, D) ==
    IF D = {} THEN Zero
    ELSE LET x == CHOOSE x \in D : TRUE IN Add(f[x], SumOver(f, D \ {x}))

\* the triplets of column a of basisvectors, and the power of 1/sqrt(2) they carry
BasisColumn(a) == {t \in 1 .. Len(basisvectors) : basisvectors[t].col = a}
ColumnE2(a) == IF \E t \in BasisColumn(a) : basisvectors[t].value.root2 THEN 1 ELSE 0

\* basisvectors.adjoint() * op * basisvectors: a matrix is a function from
\* (row, column) of the working basis to scaled scalars
ToWorkingBasis(triplets, lower) ==
    [p \in (0 .. num_basisvectors - 1) \X (0 .. num_basisvectors - 1) |->
        LET terms == [tt \in BasisColumn(p[1]) \X BasisColumn(p[2]) |->
                        Mul(Mul(Conj(basisvectors[tt[1]].value.z),
                                Entry(triplets, basisvectors[tt[1]].row,
                                      basisvectors[tt[2]].row, lower)),
                            basisvectors[tt[2]].value.z)]
        IN Scaled(SumOver(terms, DOMAIN terms), ColumnE2(p[1]) + ColumnE2(p[2]))]

\* op.adjoint()
Adjoint(matrix) ==
    [p \in DOMAIN matrix |->
        Scaled(Conj(matrix[<<p[2], p[1]>>].z), matrix[<<p[2], p[1]>>].e2)]

\* factor * op
ScaleMatrix(factor, matrix) ==
    [p \in DOMAIN matrix |-> Scaled(Scale(factor, matrix[p].z), matrix[p].e2)]

\* the factor std::pow(-1, i) of the derived operator: i is the component of
\* the operator (its order, for the ion multipole)
AdjointPhaseByRank(rank, component) == PowMinusOne(rank)

AdjointPhase(rank, component) == PowMinusOne(component)

\* the operator stored for -i: std::pow(-1, i) * interaction[i].adjoint()
Derived(rank, component, matrix) ==
    ScaleMatrix(AdjointPhase(rank, component), Adjoint(matrix))

\* SystemOne::initializeInteraction
initializeInteraction ==
    /\ pc = "built"
    /\ interaction_efield' =
          [k \in DOMAIN interaction_efield \cup erange \cup {-i : i \in erange} |->
              IF k \in erange
              THEN ToWorkingBasis(interaction_efield_triplets(k), k = 0)
              ELSE IF -k \in erange
              THEN Derived(1, -k, ToWorkingBasis(interaction_efield_triplets(-k), FALSE))
              ELSE interaction_efield[k]]
    /\ interaction_bfield' =
          [k \in DOMAIN interaction_bfield \cup brange \cup {-i : i \in brange} |->
              IF k \in brange
              THEN ToWorkingBasis(interaction_bfield_triplets(k), k = 0)
              ELSE IF -k \in brange
              THEN Derived(1, -k, ToWorkingBasis(interaction_bfield_triplets(-k), FALSE))
              ELSE interaction_bfield[k]]
    /\ interaction_diamagnetism' =
          [k \in DOMAIN interaction_diamagnetism \cup drange
                    \cup {<<i[1], -i[2]>> : i \in drange} |->
              IF k \in drange
              THEN ToWorkingBasis(interaction_diamagnetism_triplets(k), k[2] = 0)
              ELSE IF <<k[1], -k[2]>> \in drange
              THEN Derived(k[1], -k[2],
                           ToWorkingBasis(interaction_diamagnetism_triplets(<<k[1], -k[2]>>),
                                          FALSE))
              ELSE interaction_diamagnetism[k]]
    /\ interaction_multipole' =
          [k \in DOMAIN interaction_multipole \cup orange \cup {-i : i \in orange} |->
              IF k \in orange
              THEN ToWorkingBasis(interaction_multipole_triplets(k), k = 0)
              ELSE IF -k \in orange
              THEN Derived(-k, -k, ToWorkingBasis(interaction_multipole_triplets(-k), FALSE))
              ELSE interaction_multipole[k]]
    /\ last_call' = [NoCall EXCEPT !.op = "initializeInteraction"]
    /\ outcome' = "ok"
    /\ last_hook' = "none"
    /\ run' = InteractionRun
    /\ UNCHANGED warned
    /\ UNCHANGED <<build, serialization, basis_config, basis_data, sym_reflection, sym_rotation, dirty, pc,
                   parameters>>

----------------------------------------------------------------------------
(* The total Hamiltonian *)

\* map[key] on a std::unordered_map: a missing key is inserted with a
\* value-initialized value, which is returned
WithDefaults(map, keys, default) ==
    [k \in DOMAIN map \cup keys |-> IF k \in DOMAIN map THEN map[k] ELSE default]
ZeroScalar == Scaled(Zero, 0)
\* a default-constructed eigen_sparse_t has no rows and no columns
EmptyMatrix == EmptyMap

FieldKeys == {-1, 0, 1}
DiamagnetismKeys == {<<0, 0>>, <<2, 0>>, <<2, 1>>, <<2, -1>>, <<2, 2>>, <<2, -2>>}

\* the coefficient of a term: z / sqrt(2)^e2 * 10^exp10
Coefficient(value, exp10) == [z |-> value.z, e2 |-> value.e2, exp10 |-> exp10]

\* one "hamiltonian += ..." or "hamiltonian -= ..." of addInteraction: the
\* operator the statement reads from the cache, the coefficient it multiplies
\* it with, and the constant factor the statement carries
Term(sign, family, key, operators, coefficient, factor) ==
    [sign |-> sign, family |-> family, key |-> key,
     operator |-> IF key \in DOMAIN operators THEN operators[key] ELSE EmptyMatrix,
     coefficient |-> coefficient, factor |-> factor]

\* the statements on the fields, in the order of the code: each is guarded by
\* std::abs(coefficient) > tolerance, the diamagnetic ones also by diamagnetism
FieldStatements ==
    LET e == WithDefaults(efield_spherical, FieldKeys, ZeroScalar)
        b == WithDefaults(bfield_spherical, FieldKeys, ZeroScalar)
        d == WithDefaults(diamagnetism_terms, DiamagnetismKeys, ZeroScalar)
        E(sign, key, comp) ==
            [guard |-> AboveTolerance(e[comp]),
             term |-> Term(sign, "efield", key, interaction_efield,
                           Coefficient(e[comp], 0), "1")]
        B(sign, key, comp) ==
            [guard |-> AboveTolerance(b[comp]),
             term |-> Term(sign, "bfield", key, interaction_bfield,
                           Coefficient(b[comp], 0), "1")]
        D(sign, key, factor) ==
            [guard |-> diamagnetism /\ AboveTolerance(d[key]),
             term |-> Term(sign, "diamagnetism", key, interaction_diamagnetism,
                           Coefficient(d[key], 0), factor)]
    IN <<E(-1, 0, 0), E(1, 1, -1), E(1, -1, 1),
         B(-1, 0, 0), B(1, 1, -1), B(1, -1, 1),
         D(1, <<0, 0>>, "1"), D(-1, <<2, 0>>, "1"),
         D(1, <<2, 1>>, "sqrt(3)"), D(1, <<2, -1>>, "sqrt(3)"),
         D(-1, <<2, 2>>, "sqrt(1.5)"), D(-1, <<2, -2>>, "sqrt(1.5)")>>

\* the statements of the loop over the orders of the ion multipole:
\* hamiltonian += interaction_multipole[order] * charge * powerlaw, with
\* powerlaw = 1 / distance^(order + 1)
MultipoleGuardWithTolerance ==
    charge # 0 /\ distance # DBL_MAX /\ distance < 12

MultipoleGuard == charge # 0 /\ distance # DBL_MAX

MultipoleStatements ==
    IF MultipoleGuard
    THEN [order \in 1 .. ordermax |->
            [guard |-> TRUE,
             term |-> Term(1, "multipole", order, interaction_multipole,
                           Coefficient(Scaled(<<charge, 0>>, 0), -(distance * (order + 1))),
                           "1")]]
    ELSE <<>>

RECURSIVE ExecutedTerms(_)
ExecutedTerms(statements) ==
    IF statements = <<>> THEN <<>>
    ELSE (IF Head(statements).guard THEN <<Head(statements).term>> ELSE <<>>)
         \o ExecutedTerms(Tail(statements))

\* the terms one addInteraction adds
AddedTerms == ExecutedTerms(FieldStatements \o MultipoleStatements)

\* the keys the executed statements read from a cache
KeysRead(family) ==
    {AddedTerms[t].key : t \in {u \in DOMAIN AddedTerms : AddedTerms[u].family = family}}

\* SystemOne::addInteraction.  SystemBase calls it right after
\* initializeInteraction, on the field-free Hamiltonian.  Reading a key a map
\* does not hold inserts it; adding an operator of another size than the
\* Hamiltonian is undefined (an Eigen assertion, if assertions are compiled in).
addInteraction ==
    /\ pc = "built"
    /\ last_call.op = "initializeInteraction"
    /\ hamiltonian_terms = <<>>
    /\ hamiltonian_terms' = hamiltonian_terms \o AddedTerms
    /\ efield_spherical' = WithDefaults(efield_spherical, FieldKeys, ZeroScalar)
    /\ bfield_spherical' = WithDefaults(bfield_spherical, FieldKeys, ZeroScalar)
    /\ diamagnetism_terms' =
          IF diamagnetism
          THEN WithDefaults(diamagnetism_terms, DiamagnetismKeys, ZeroScalar)
          ELSE diamagnetism_terms
    /\ interaction_efield' =
          WithDefaults(interaction_efield, KeysRead("efield"), EmptyMatrix)
    /\ interaction_bfield' =
          WithDefaults(interaction_bfield, KeysRead("bfield"), EmptyMatrix)
    /\ interaction_diamagnetism' =
          WithDefaults(interaction_diamagnetism, KeysRead("diamagnetism"), EmptyMatrix)
    /\ interaction_multipole' =
          WithDefaults(interaction_multipole, KeysRead("multipole"), EmptyMatrix)
    /\ outcome' \in
          IF \E t \in DOMAIN AddedTerms : AddedTerms[t].operator = EmptyMatrix
          THEN {"ok", "assertion_failed"}
          ELSE {"ok"}
    /\ last_call' = [NoCall EXCEPT !.op = "addInteraction"]
    /\ last_hook' = "none"
    /\ UNCHANGED <<build, serialization, basis_config, states, basisvectors, hamiltonian, num_basisvectors,
                   sym_reflection, sym_rotation, dirty, pc, efield, bfield, diamagnetism,
                   charge, ordermax, distance, mutations, call_ghost>>

----------------------------------------------------------------------------
(* The binding: setters that take an array *)

\* what a read past the end of the array can yield
OutOfBounds == {0, 9}

\* std::set<T> x = {x_jl[0], x_jl[1]}: the sets the lambda can build from the
\* array; an array shorter than two is read past its end
FirstTwo(x_jl) ==
    IF Len(x_jl) >= 2 THEN {{x_jl[1], x_jl[2]}}
    ELSE IF Len(x_jl) = 1 THEN {{x_jl[1], g} : g \in OutOfBounds}
    ELSE {{g, h} : g \in OutOfBounds, h \in OutOfBounds}

\* for (i < momenta_jl.size()) momenta.insert(momenta_jl[i])
AllElements(x_jl) == {x_jl[i] : i \in DOMAIN x_jl}

\* the bookkeeping of a call with an array
ArrayCall(op, x_jl) ==
    /\ last_call' = [op |-> op, parity |-> NA, momenta |-> {}, array |-> x_jl]
    /\ outcome' = "ok"
    /\ last_hook' = "none"
    /\ UNCHANGED <<build, serialization, species, energy_min, energy_max, states_to_add,
                   sym_reflection, sym_rotation, dirty, basis_data, run, warned, pc,
                   parameters, interaction>>

\* restrictN(s, n_jl) and its likes for l, j and m
restrictN(n_jl) ==
    /\ range_n' \in FirstTwo(n_jl)
    /\ ArrayCall("restrictN", n_jl)
    /\ UNCHANGED <<range_l, range_j, range_m>>

restrictL(l_jl) ==
    /\ range_l' \in FirstTwo(l_jl)
    /\ ArrayCall("restrictL", l_jl)
    /\ UNCHANGED <<range_n, range_j, range_m>>

restrictJ(j_jl) ==
    /\ range_j' \in FirstTwo(j_jl)
    /\ ArrayCall("restrictJ", j_jl)
    /\ UNCHANGED <<range_n, range_l, range_m>>

restrictM(m_jl) ==
    /\ range_m' \in FirstTwo(m_jl)
    /\ ArrayCall("restrictM", m_jl)
    /\ UNCHANGED <<range_n, range_l, range_j>>

\* setConservedMomentaUnderRotation(s, momenta_jl): the setter, called with the
\* set of all elements
setConservedMomentaUnderRotationArray(momenta_jl) ==
    setConservedMomentaUnderRotation(AllElements(momenta_jl))

----------------------------------------------------------------------------
(* Transforming and deleting the cached operators *)

\* a transformator with one non-zero entry per column: column c holds
\* T[c].value in row T[c].row
IdentityTransformator ==
    [c \in 0 .. num_basisvectors - 1 |-> [row |-> c, value |-> One]]

\* the first two basis vectors exchanged, one of them with the phase i
SwapTransformator ==
    [c \in 0 .. num_basisvectors - 1 |->
        IF c = 0 THEN [row |-> 1, value |-> <<0, 1>>]
        ELSE IF c = 1 THEN [row |-> 0, value |-> One]
        ELSE [row |-> c, value |-> One]]

\* transformator.adjoint() * op * transformator
TransformedWithoutAdjoint(T, op) ==
    [p \in (DOMAIN T) \X (DOMAIN T) |->
        Scaled(Mul(Mul(T[p[1]].value, op[<<T[p[1]].row, T[p[2]].row>>].z), T[p[2]].value),
               op[<<T[p[1]].row, T[p[2]].row>>].e2)]

Transformed(T, op) ==
    [p \in (DOMAIN T) \X (DOMAIN T) |->
        Scaled(Mul(Mul(Conj(T[p[1]].value), op[<<T[p[1]].row, T[p[2]].row>>].z),
                   T[p[2]].value),
               op[<<T[p[1]].row, T[p[2]].row>>].e2)]

\* SystemOne::transformInteraction
transformInteraction(T) ==
    /\ pc = "built"
    /\ interaction_efield' =
          [k \in DOMAIN interaction_efield |-> Transformed(T, interaction_efield[k])]
    /\ interaction_bfield' =
          [k \in DOMAIN interaction_bfield |-> Transformed(T, interaction_bfield[k])]
    /\ interaction_diamagnetism' =
          [k \in DOMAIN interaction_diamagnetism |->
              Transformed(T, interaction_diamagnetism[k])]
    /\ interaction_multipole' =
          [k \in DOMAIN interaction_multipole |-> Transformed(T, interaction_multipole[k])]
    /\ last_call' = [op |-> "transformInteraction", parity |-> NA, momenta |-> {},
                     transformator |-> T]
    /\ outcome' = "ok"
    /\ last_hook' = "none"
    /\ UNCHANGED <<build, serialization, basis_config, basis_data, sym_reflection,
                   sym_rotation, dirty, pc, parameters, call_ghost>>

\* SystemOne::deleteInteraction
deleteInteraction ==
    /\ interaction_efield' = EmptyMap
    /\ interaction_bfield' = EmptyMap
    /\ interaction_diamagnetism' = EmptyMap
    /\ interaction_multipole' = EmptyMap

\* a call of deleteInteraction by the base class
deleteInteractionCalled ==
    /\ deleteInteraction
    /\ last_call' = [NoCall EXCEPT !.op = "deleteInteraction"]
    /\ outcome' = "ok"
    /\ last_hook' = "none"
    /\ UNCHANGED <<build, serialization, basis_config, basis_data, sym_reflection,
                   sym_rotation, dirty, pc, parameters, call_ghost>>

----------------------------------------------------------------------------
(* The assembler's terminal action *)

\* SystemBase::diagonalize on a built system. After a symmetry change the
\* basis is built again under the current symmetries and every cached
\* operator is discarded, to be built on the new basis by initializeInteraction;
\* after a parameter change the basis and the caches are kept and only the
\* linear combination is formed again. The pending change is then cleared.
diagonalize ==
    /\ pc = "built"
    /\ last_call' = [NoCall EXCEPT !.op = "diagonalize"]
    /\ last_hook' = "none"
    /\ IF dirty = "SymmetryDirty"
       THEN LET b == initializeBasisResult
            IN /\ outcome' = b.status
               /\ states' = b.states
               /\ IF b.status = "ok"
                  THEN /\ basisvectors' = b.bv
                       /\ hamiltonian' = b.ht
                       /\ num_basisvectors' = b.idx
                       /\ hamiltonian_terms' = <<>>
                       /\ deleteInteraction
                       /\ dirty' = "Clean"
                       /\ pc' = "built"
                  ELSE /\ pc' = "failed"
                       /\ UNCHANGED <<basisvectors, hamiltonian, num_basisvectors,
                                      hamiltonian_terms, interaction, dirty>>
       ELSE /\ outcome' = "ok"
            /\ dirty' = "Clean"
            /\ UNCHANGED <<basis_data, interaction, pc>>
    /\ UNCHANGED <<build, serialization, basis_config, sym_reflection, sym_rotation, parameters, call_ghost>>

----------------------------------------------------------------------------
(* Combining two systems *)

\* what incorporate reads of the other system
OtherSystem(sp, e, b, dia, refl, rot) ==
    [species |-> sp, efield |-> e, bfield |-> b, diamagnetism |-> dia,
     sym_reflection |-> refl, sym_rotation |-> rot]

IncorporateErrorWithoutDiamagnetism(other) ==
    IF species # other.species THEN "different_species"
    ELSE IF efield # other.efield THEN "different_efield"
    ELSE IF bfield # other.bfield THEN "different_bfield"
    ELSE "ok"

\* the checks on the parameters, in the order of the code
IncorporateError(other) ==
    IF species # other.species THEN "different_species"
    ELSE IF efield # other.efield THEN "different_efield"
    ELSE IF bfield # other.bfield THEN "different_bfield"
    ELSE IF diamagnetism # other.diamagnetism THEN "different_diamagnetism"
    ELSE "ok"

\* the combined momenta, where the two sets differ
CombinedRotationAlwaysArb(rot, other_rot) == {ARB}

CombinedRotationKeepsOwn(rot, other_rot) ==
    IF ARB \in rot \/ ARB \in other_rot THEN {ARB} ELSE rot

CombinedRotation(rot, other_rot) ==
    IF ARB \in rot \/ ARB \in other_rot THEN {ARB} ELSE rot \cup other_rot

\* SystemOne::incorporate
incorporate(other) ==
    /\ last_call' = [op |-> "incorporate", parity |-> NA, momenta |-> {}, other |-> other]
    /\ last_hook' = "none"
    /\ outcome' = IncorporateError(other)
    /\ IF IncorporateError(other) # "ok"
       THEN UNCHANGED <<sym_reflection, sym_rotation, warned, interaction>>
       ELSE LET num_different_symmetries ==
                    (IF sym_reflection # other.sym_reflection THEN 1 ELSE 0)
                    + (IF sym_rotation # other.sym_rotation THEN 1 ELSE 0)
            IN /\ sym_reflection' =
                     IF sym_reflection # other.sym_reflection THEN NA ELSE sym_reflection
               /\ sym_rotation' =
                     IF sym_rotation # other.sym_rotation
                     THEN CombinedRotation(sym_rotation, other.sym_rotation)
                     ELSE sym_rotation
               /\ warned' = (num_different_symmetries > 1)
               /\ deleteInteraction
    /\ UNCHANGED <<build, serialization, basis_config, basis_data, dirty, pc, parameters, run>>

----------------------------------------------------------------------------
(* Hamiltonianmatrix: serialization *)

\* Hamiltonianmatrix.hpp flag bit of a complex scalar_t; the bit csr_not_csc
\* stays clear, the matrices being stored column-major
complex_not_real == 2

\* an Eigen sparse matrix: its dimensions and the value stored at each stored
\* position <<row, col>>
SparseMatrix(rows, cols, val) == [rows |-> rows, cols |-> cols, val |-> val]

\* a Hamiltonianmatrix of a build whose scalar_t is complex or real
Hamiltonianmatrix(complex, entries, basis) ==
    [complex |-> complex, entries |-> entries, basis |-> basis]

\* Hamiltonianmatrix(): both matrices empty
NoMatrix == Hamiltonianmatrix(FALSE, SparseMatrix(0, 0, EmptyMap), SparseMatrix(0, 0, EmptyMap))

NoBytes == [present |-> FALSE]

NothingSerialized == hmatrix = NoMatrix /\ bytes = NoBytes /\ restored = NoMatrix

\* the stored positions as <<col, row>>, in the order of the compressed
\* column-major storage
StorageOrder(m) == TupleSeq({<<p[2], p[1]>> : p \in DOMAIN m.val})

\* the outer index array: where each column starts in the storage order
OuterIndex(m) ==
    [i \in 1 .. m.cols + 1 |-> Cardinality({p \in DOMAIN m.val : p[2] < i - 1})]

\* the inner index array: the row of each stored value
InnerIndex(m) == [k \in 1 .. Len(StorageOrder(m)) |-> StorageOrder(m)[k][2]]

\* the value array
ValueArray(m) ==
    [k \in 1 .. Len(StorageOrder(m)) |-> m.val[<<StorageOrder(m)[k][2], StorageOrder(m)[k][1]>>]]

\* Hamiltonianmatrix::splitComplex, for complex and for real scalar_t
splitComplex(complex, values) ==
    IF complex
    THEN [real |-> [k \in DOMAIN values |-> values[k][1]],
          imag |-> [k \in DOMAIN values |-> values[k][2]]]
    ELSE [real |-> [k \in DOMAIN values |-> values[k][1]], imag |-> <<>>]

\* Hamiltonianmatrix::mergeComplex, for complex and for real scalar_t
mergeComplexWithoutImag(complex, real, imag) == [k \in DOMAIN real |-> <<real[k], 0>>]

mergeComplex(complex, real, imag) ==
    IF complex
    THEN [k \in DOMAIN real |-> <<real[k], imag[k]>>]
    ELSE [k \in DOMAIN real |-> <<real[k], 0>>]

\* one sparse matrix of the record: index arrays and values
Compressed(complex, m) ==
    [indptr |-> OuterIndex(m), indices |-> InnerIndex(m),
     real |-> splitComplex(complex, ValueArray(m)).real,
     imag |-> splitComplex(complex, ValueArray(m)).imag]

\* the column of the k-th stored value
ColumnOf(indptr, k) ==
    CHOOSE c \in 0 .. Len(indptr) - 2 : indptr[c + 1] < k /\ k <= indptr[c + 2]

Uncompressed(complex, rows, cols, part) ==
    LET values == mergeComplex(complex, part.real, part.imag)
        position(k) == <<part.indices[k], ColumnOf(part.indptr, k)>>
        stored == {position(k) : k \in DOMAIN part.indices}
    IN SparseMatrix(rows, cols,
                    [p \in stored |->
                        values[CHOOSE k \in DOMAIN part.indices : position(k) = p]])

\* a content hash: a digest of the dimensions, the index arrays and the values
RECURSIVE Digest(_, _)
Digest(h, words) ==
    IF words = <<>> THEN h
    ELSE Digest((h * 31 + Head(words) + 4096) % 65521, Tail(words))

Words(complex, m) ==
    <<m.rows, m.cols>> \o Compressed(complex, m).indptr \o Compressed(complex, m).indices
    \o Compressed(complex, m).real \o Compressed(complex, m).imag

HashOf(complex, m) == Digest(7, Words(complex, m))

\* Hamiltonianmatrix::hashEntries, Hamiltonianmatrix::hashBasis
hashEntries(h) == HashOf(h.complex, h.entries)
hashBasis(h) == HashOf(h.complex, h.basis)

\* the record: flags, dimensions, basis, entries, the two hashes
Serialized(h) ==
    [present |-> TRUE,
     flags |-> IF h.complex THEN complex_not_real ELSE 0,
     dims |-> <<h.basis.rows, h.basis.cols, h.entries.rows, h.entries.cols>>,
     basis |-> Compressed(h.complex, h.basis),
     entries |-> Compressed(h.complex, h.entries),
     hash_entries |-> hashEntries(h),
     hash_basis |-> hashBasis(h)]

Deserialized(b) ==
    LET complex == (b.flags \div complex_not_real) % 2 = 1
    IN Hamiltonianmatrix(complex,
                         Uncompressed(complex, b.dims[3], b.dims[4], b.entries),
                         Uncompressed(complex, b.dims[1], b.dims[2], b.basis))

\* Hamiltonianmatrix::serialize
serialize ==
    /\ hmatrix # NoMatrix
    /\ bytes = NoBytes
    /\ bytes' = Serialized(hmatrix)
    /\ UNCHANGED <<build, hmatrix, restored, basis_config, sym_reflection, sym_rotation, dirty,
                   basis_data, call_info, pc, parameters, interaction>>

\* Hamiltonianmatrix::deserialize, on a default-constructed matrix
deserialize ==
    /\ bytes # NoBytes
    /\ restored = NoMatrix
    /\ restored' = Deserialized(bytes)
    /\ UNCHANGED <<build, hmatrix, bytes, basis_config, sym_reflection, sym_rotation, dirty,
                   basis_data, call_info, pc, parameters, interaction>>

----------------------------------------------------------------------------
(* Specifications *)

vars == <<build, serialization, basis_config, sym_reflection, sym_rotation, dirty, basis_data, call_info, pc,
          parameters, interaction>>

\* the restrictions a caller sets before the build
RangeNInputs == {{}, 1 .. MaxN, {10}}
RangeLInputs == {{}, {0, 1}}
RangeJInputs == {{}, {0, 1, 3}}
RangeMInputs == {{}, {-1, 1}, {1}, {-1, 1, 3}}
\* energy windows: getEnergy is about -1000 for n = 1, -250 for n = 2, -10 for n = 10
EnergyInputs == {<<DBL_LOWEST, DBL_MAX>>, <<DBL_LOWEST, -5>>, <<-500, DBL_MAX>>,
                 <<-500, -5>>}
UserP == StateOne(Rb, 5, 0, 1, 1)
UserCs == StateOne(Cs, 5, 0, 1, 1)
UserD == StateOne(Rb, 10, 1, 3, 1)
StatesToAddInputs ==
    {{}, {ArtificialState}, {UserP}, {ArtificialState, UserP, getReflected(UserP)},
     {UserCs}, {UserD, getReflected(UserD)}}
\* the momentum sets (doubled) a caller conserves before a build
BasisMomenta == {{ARB}, {1}, {-1, 1}}

\* the state of a freshly constructed SystemOne
ConstructedButIon ==
    /\ species = Rb
    /\ sym_reflection = NA
    /\ sym_rotation = {ARB}
    /\ efield = <<0, 0, 0>>
    /\ bfield = <<0, 0, 0>>
    /\ efield_spherical = EmptyMap
    /\ bfield_spherical = EmptyMap
    /\ diamagnetism_terms = EmptyMap
    /\ diamagnetism = TRUE
    /\ charge = 0
    /\ interaction_efield = EmptyMap
    /\ interaction_bfield = EmptyMap
    /\ interaction_diamagnetism = EmptyMap
    /\ interaction_multipole = EmptyMap
    /\ mutations = 0
    /\ states = <<>>
    /\ basisvectors = <<>>
    /\ hamiltonian = <<>>
    /\ hamiltonian_terms = <<>>
    /\ num_basisvectors = 0
    /\ last_call = NoCall
    /\ outcome = "none"
    /\ last_hook = "none"
    /\ run = NoRun
    /\ warned = FALSE
    /\ pc = "config"

\* the state the constructor leaves
Constructed ==
    /\ ConstructedButIon
    /\ dirty = "Clean"
    /\ ordermax = 0
    /\ distance = DBL_MAX

Unrestricted ==
    /\ range_n = {}
    /\ range_l = {}
    /\ range_j = {}
    /\ range_m = {}
    /\ energy_min = DBL_LOWEST
    /\ energy_max = DBL_MAX
    /\ states_to_add = {}

\* Symmetry setters on a fresh system
InitSym == USE_COMPLEX = TRUE /\ Constructed /\ Unrestricted /\ NothingSerialized

MomentaInputs == SUBSET ((-MaxMomentum .. MaxMomentum) \cup {ARB})

\* the systems a fresh system is combined with
OthersSym ==
    {OtherSystem(sp, efield, bfield, diamagnetism, refl, rot) :
        sp \in {Rb, Cs}, refl \in parity_t, rot \in {{ARB}, {1}, {-1, 1}}}

NextSym ==
    \/ \E parity \in parity_t : setConservedParityUnderReflection(parity)
    \/ \E momenta \in MomentaInputs : setConservedMomentaUnderRotation(momenta)
    \/ \E other \in OthersSym : incorporate(other)

SpecSym == InitSym /\ [][NextSym]_vars

\* Basis build: a fresh system whose restrictions a caller has set; the caller
\* then sets symmetries and builds the basis.
Init ==
    /\ USE_COMPLEX = TRUE
    /\ Constructed
    /\ NothingSerialized
    /\ range_n \in RangeNInputs
    /\ range_l \in RangeLInputs
    /\ (range_l = {} => \A n \in range_n : n <= MaxN)
    /\ range_j \in RangeJInputs
    /\ range_m \in RangeMInputs
    /\ \E w \in EnergyInputs : energy_min = w[1] /\ energy_max = w[2]
    /\ states_to_add \in StatesToAddInputs

\* the symmetries are set before the basis is built
Next ==
    \/ \E parity \in parity_t : pc = "config" /\ setConservedParityUnderReflection(parity)
    \/ \E momenta \in BasisMomenta \cup {{ARB, 1}} :
           pc = "config" /\ setConservedMomentaUnderRotation(momenta)
    \/ initializeBasis

Spec == Init /\ [][Next]_vars


\* Interaction build: a fresh system restricted to n = 2 (optionally to
\* m = +-1/2, optionally with an artificial state added); the caller sets a
\* reflection parity, fields and ion parameters, builds the basis and then the
\* interaction operators.
IntScenarios ==
    {[range_m |-> {}, states_to_add |-> {ArtificialState}, ion |-> FALSE],
     [range_m |-> {-1, 1}, states_to_add |-> {}, ion |-> FALSE],
     [range_m |-> {}, states_to_add |-> {}, ion |-> TRUE]}
EfieldInputs == {<<0, 0, 1>>, <<1, 0, 0>>}
BfieldInputs == {<<1, 0, 1>>, <<0, 1, 0>>}
\* decimal exponents of the distance of the ion
DistanceInputs == {0}

\* a fresh system, or one on which setRydIonOrder(1) and setRydIonDistance(1e13)
\* have placed a far ion
InitInt ==
    /\ USE_COMPLEX = TRUE
    /\ ConstructedButIon
    /\ NothingSerialized
    /\ range_n = {2}
    /\ range_l = {}
    /\ range_j = {}
    /\ energy_min = DBL_LOWEST
    /\ energy_max = DBL_MAX
    /\ \E sc \in IntScenarios :
          /\ range_m = sc.range_m
          /\ states_to_add = sc.states_to_add
          /\ ordermax = IF sc.ion THEN 1 ELSE 0
          /\ distance = IF sc.ion THEN 13 ELSE DBL_MAX
          /\ dirty = IF sc.ion THEN "ParametersDirty" ELSE "Clean"

NextInt ==
    \/ \E parity \in {EVEN, ODD} : pc = "config" /\ setConservedParityUnderReflection(parity)
    \/ \E field \in EfieldInputs : setEfield(field)
    \/ \E field \in BfieldInputs : setBfield(field)
    \/ enableDiamagnetism(FALSE)
    \/ setIonCharge(1)
    \/ setRydIonOrder(2)
    \/ \E d \in DistanceInputs : setRydIonDistance(d)
    \/ initializeBasis
    \/ initializeInteraction
    \/ addInteraction

SpecInt == InitInt /\ [][NextInt]_vars

\* Serialization: a Hamiltonianmatrix of a complex or a real build, with
\* square entries and basis, is serialized and read back.
MaxDim == 2
Coordinates == 0 .. MaxDim - 1
StoredValues(complex) ==
    IF complex THEN << <<2, 1>>, <<0, -1>> >> ELSE << <<2, 0>>, <<-1, 0>> >>

\* every choice of stored positions, holding one value everywhere or two
\* values in a chequered pattern
EntriesInputs(complex) ==
    {[p \in S |-> StoredValues(complex)[1 + (((p[1] + p[2]) * k) % 2)]] :
        S \in SUBSET (Coordinates \X Coordinates), k \in {0, 1}}

\* the identity, and one with a phase and an explicitly stored zero
BasisInputs(complex) ==
    {[p \in {<<i, i>> : i \in Coordinates} |-> One],
     [p \in {<<i, i>> : i \in Coordinates} \cup {<<MaxDim - 1, 0>>} |->
         IF p = <<0, 0>> THEN (IF complex THEN <<0, 1>> ELSE <<-1, 0>>)
         ELSE IF p[1] = p[2] THEN One ELSE Zero]}

InitSer ==
    /\ Constructed
    /\ Unrestricted
    /\ bytes = NoBytes
    /\ restored = NoMatrix
    /\ USE_COMPLEX \in BOOLEAN
    /\ \E complex \in {USE_COMPLEX} :
          \E e \in EntriesInputs(complex), b \in BasisInputs(complex) :
              hmatrix = Hamiltonianmatrix(complex, SparseMatrix(MaxDim, MaxDim, e),
                                         SparseMatrix(MaxDim, MaxDim, b))

NextSer == serialize \/ deserialize

SpecSer == InitSer /\ [][NextSer]_vars

\* Fields: a system of a complex or of a real build whose fields, diamagnetism
\* flag and ion charge are set, also to fields with a y component.
FieldInputs == {<<0, 0, 0>>, <<1, 0, 2>>, <<0, 1, 0>>, <<2, 1, 1>>}

InitField ==
    /\ USE_COMPLEX \in BOOLEAN
    /\ Constructed
    /\ Unrestricted
    /\ NothingSerialized

NextField ==
    \/ \E field \in FieldInputs : setEfield(field)
    \/ \E field \in FieldInputs : setBfield(field)
    \/ \E enable \in BOOLEAN : enableDiamagnetism(enable)
    \/ setIonCharge(1)

SpecField == InitField /\ [][NextField]_vars

\* Cache upkeep: on a system restricted to n = 2 and m = +-1/2 the operators
\* are built, transformed, deleted and built again, and the system is
\* combined with another one.
InitCache ==
    /\ USE_COMPLEX = TRUE
    /\ Constructed
    /\ NothingSerialized
    /\ range_n = {2}
    /\ range_l = {}
    /\ range_j = {}
    /\ range_m = {-1, 1}
    /\ energy_min = DBL_LOWEST
    /\ energy_max = DBL_MAX
    /\ states_to_add = {}

OthersCache ==
    {OtherSystem(species, efield, bfield, diamagnetism, sym_reflection, sym_rotation),
     OtherSystem(Cs, efield, bfield, diamagnetism, sym_reflection, sym_rotation)}

NextCache ==
    \/ setEfield(<<1, 0, 1>>)
    \/ setBfield(<<1, 1, 1>>)
    \/ initializeBasis
    \/ initializeInteraction
    \/ \E T \in {IdentityTransformator, SwapTransformator} : transformInteraction(T)
    \/ deleteInteractionCalled
    \/ \E other \in OthersCache : incorporate(other)

SpecCache == InitCache /\ [][NextCache]_vars

\* The binding: a fresh system whose restrictions and conserved momenta are set
\* from arrays of up to three elements; the shortest arrays are passed for n.
ShortArrayInputs == {<<>>, <<1>>}
ArrayInputs == {<<1, 3>>, <<1, 1, 3>>, <<3, 1, 5>>}

NextBind ==
    \/ \E n_jl \in ShortArrayInputs \cup ArrayInputs : restrictN(n_jl)
    \/ \E l_jl \in ArrayInputs : restrictL(l_jl)
    \/ \E j_jl \in ArrayInputs : restrictJ(j_jl)
    \/ \E m_jl \in ArrayInputs : restrictM(m_jl)
    \/ \E momenta_jl \in ArrayInputs : setConservedMomentaUnderRotationArray(momenta_jl)

SpecBind == InitSym /\ [][NextBind]_vars

\* Assembly: a system restricted to n = 2 on which symmetries and parameters
\* are changed before and after the build, and which is diagonalized.
InitAsm ==
    /\ USE_COMPLEX = TRUE
    /\ Constructed
    /\ NothingSerialized
    /\ range_n = {2}
    /\ range_l = {}
    /\ range_j = {}
    /\ range_m \in {{}, {-1, 1}}
    /\ energy_min = DBL_LOWEST
    /\ energy_max = DBL_MAX
    /\ states_to_add = {}

NextAsm ==
    \/ \E parity \in {NA, EVEN} : setConservedParityUnderReflection(parity)
    \/ \E momenta \in {{ARB}, {-1, 1}, {ARB, 1}} : setConservedMomentaUnderRotation(momenta)
    \/ setEfield(<<0, 0, 1>>)
    \/ setIonCharge(1)
    \/ initializeBasis
    \/ initializeInteraction
    \/ diagonalize

SpecAsm == InitAsm /\ [][NextAsm]_vars

\* Combining a system whose operators may already be cached with another one.
\* the systems the system is combined with: one like it, and one that differs
\* in a symmetry, in the species, in a field or in the diamagnetism flag
OthersInc ==
    {OtherSystem(species, efield, bfield, diamagnetism, sym_reflection, sym_rotation),
     OtherSystem(species, efield, bfield, diamagnetism, EVEN, {-1, 1}),
     OtherSystem(Cs, efield, bfield, diamagnetism, sym_reflection, sym_rotation),
     OtherSystem(species, <<0, 0, 2>>, bfield, diamagnetism, sym_reflection, sym_rotation),
     OtherSystem(species, efield, <<0, 0, 2>>, diamagnetism, sym_reflection, sym_rotation),
     OtherSystem(species, efield, bfield, ~diamagnetism, sym_reflection, sym_rotation)}

NextInc ==
    \/ \E e \in EfieldInputs : setEfield(e)
    \/ \E b \in BfieldInputs : setBfield(b)
    \/ initializeBasis
    \/ initializeInteraction
    \/ \E other \in OthersInc : incorporate(other)

SpecInc == InitInt /\ [][NextInc]_vars

\* Combining systems with symmetries: on a system restricted to n = 2 and
\* m = +-1/2 a caller sets symmetries and a magnetic field, builds the basis
\* and the operators, and combines the system with others of every parity and
\* of several momentum sets.
OthersComb ==
    {OtherSystem(sp, efield, bfield, diamagnetism, refl, rot) :
        sp \in {Rb, Cs}, refl \in parity_t, rot \in {{ARB}, {-1, 1}, {-3, 3}, {1}}}

NextComb ==
    \/ pc = "config" /\ setConservedParityUnderReflection(EVEN)
    \/ \E momenta \in {{-1, 1}, {1}} :
           pc = "config" /\ setConservedMomentaUnderRotation(momenta)
    \/ setBfield(<<1, 0, 1>>)
    \/ initializeBasis
    \/ initializeInteraction
    \/ \E other \in OthersComb : incorporate(other)

SpecComb == InitCache /\ [][NextComb]_vars

----------------------------------------------------------------------------
(* Claims about the symmetry setters (checked under SpecSym) *)

IsArbMisuseCall(call) ==
    /\ call.op = "setConservedMomentaUnderRotation"
    /\ ARB \in call.momenta
    /\ Cardinality(call.momenta) > 1

\* the incompatibility of a parity and a momentum set, as the claim words it
ClaimIncompatible(parity, momenta) ==
    /\ parity # NA
    /\ ARB \notin momenta
    /\ \E v \in momenta : -v \notin momenta

\* C1: a call of setConservedParityUnderReflection(p), or of
\* setConservedMomentaUnderRotation(M) with M not mixing ARB with other values,
\* fails exactly when, with the new value taken into account, the parity is not
\* NA, the momenta do not contain ARB and some momentum v has no -v in the set.
C1_SetterFailsIffIncompatible ==
    [][ LET call == last_call'
            isParity == call.op = "setConservedParityUnderReflection"
            isMomenta == call.op = "setConservedMomentaUnderRotation"
                           /\ ~IsArbMisuseCall(call)
            parity == IF isParity THEN call.parity ELSE sym_reflection
            momenta == IF isMomenta THEN call.momenta ELSE sym_rotation
        IN (isParity \/ isMomenta) =>
              ((outcome' # "ok") <=> ClaimIncompatible(parity, momenta)) ]_vars

\* C1 witness: momenta {1} (doubled: {2}) followed by parity EVEN has failed
C1_Witness ==
    /\ last_call.op = "setConservedParityUnderReflection"
    /\ last_call.parity = EVEN
    /\ sym_rotation = {2}
    /\ outcome = "incompatible"

\* C2: setConservedMomentaUnderRotation with ARB together with another value
\* fails at that call and changes neither the stored symmetries nor the dirty
\* state; onSymmetryChange is not triggered.
C2_ArbMisuseLeavesSystemUnchanged ==
    [][ IsArbMisuseCall(last_call') =>
            /\ outcome' = "arb_misuse"
            /\ sym_rotation' = sym_rotation
            /\ sym_reflection' = sym_reflection
            /\ dirty' = dirty
            /\ last_hook' = "none" ]_vars

\* C2 witness: a misuse call was rejected on a system no setter had changed
C2_Witness ==
    /\ IsArbMisuseCall(last_call)
    /\ outcome = "arb_misuse"
    /\ dirty = "Clean"
    /\ sym_rotation = {ARB}

----------------------------------------------------------------------------
(* Claims about the basis build (checked under Spec) *)

Built == last_call.op = "initializeBasis" /\ outcome = "ok"
Registered == {states[r].state : r \in 1 .. Len(states)}
Column(c) == {t \in 1 .. Len(basisvectors) : basisvectors[t].col = c}
RowsOf(r) == {t \in 1 .. Len(basisvectors) : basisvectors[t].row = r}
InWindow(energy) ==
    /\ (energy_min = DBL_LOWEST \/ energy >= energy_min)
    /\ (energy_max = DBL_MAX \/ energy <= energy_max)

\* C3: with an empty n restriction and a lower or upper energy bound left at its
\* default, initializeBasis fails with the infinite-basis error, and no state,
\* basis vector or Hamiltonian entry exists afterwards.
C3_InfiniteBasisIsRefused ==
    (/\ last_call.op = "initializeBasis"
     /\ range_n = {}
     /\ (energy_min = DBL_LOWEST \/ energy_max = DBL_MAX))
    => /\ outcome = "infinite_basis"
       /\ pc = "failed"
       /\ states = <<>>
       /\ basisvectors = <<>>
       /\ hamiltonian = <<>>
       /\ num_basisvectors = 0

\* C3 witness: the build was refused with only the upper energy bound set
C3_Witness ==
    /\ last_call.op = "initializeBasis"
    /\ range_n = {}
    /\ energy_min = DBL_LOWEST
    /\ energy_max = -5
    /\ outcome = "infinite_basis"

\* C4: with an empty n restriction and an energy window bounded on both sides,
\* initializeBasis does not fail on the empty n restriction but derives the n
\* values and builds the basis.
C4_EmptyRangeNIsDerived ==
    (/\ last_call.op = "initializeBasis"
     /\ range_n = {}
     /\ energy_min # DBL_LOWEST
     /\ energy_max # DBL_MAX)
    => outcome \notin {"infinite_basis", "not_implemented"}

\* the quadruples C5 names
ClaimL(n) == IF range_l = {} THEN 0 .. n - 1 ELSE {l \in range_l : 0 <= l /\ l <= n - 1}
ClaimJ(l, s) ==
    IF range_j = {} THEN rangeHalf(Abs(2 * l - s), 2 * l + s)
    ELSE {j \in range_j : Abs(2 * l - s) <= j /\ j <= 2 * l + s}
ClaimM(j) ==
    LET ms == IF range_m = {} THEN rangeHalf(-j, j)
              ELSE {m \in range_m : -j <= m /\ m <= j}
    IN IF sym_rotation = {ARB} THEN ms ELSE ms \cap sym_rotation
ClaimQuadruples ==
    UNION {UNION {UNION {{StateOne(species, n, l, j, m) : m \in ClaimM(j)}
                         : j \in {jj \in ClaimJ(l, SpinOf(species)) :
                                     InWindow(getEnergy(StateOne(species, n, l, jj, 0)))}}
                  : l \in ClaimL(n)}
           : n \in range_n}

\* C5: without reflection symmetry and without user-added states, the registered
\* states are exactly the quadruples (n, l, j, m) with n in range_n, l in
\* [0, n-1], j in [|l-s|, l+s], m in [-j, j], each within its restriction and m
\* within the conserved momenta, whose energy is in the window; each once.
C5_RegisteredAreTheValidQuadruples ==
    (Built /\ sym_reflection = NA /\ states_to_add = {})
    => /\ Registered = ClaimQuadruples
       /\ Len(states) = Cardinality(ClaimQuadruples)

\* C6: the registry holds no state twice, the index of a state is the number of
\* states registered before it, and every row a triplet was issued for a state
\* is still the row of that state when the build ends.
C6_RegistryIsInjectiveAndStable ==
    last_call.op = "initializeBasis"
    => /\ \A r1, r2 \in 1 .. Len(states) :
              states[r1].state = states[r2].state => r1 = r2
       /\ \A r \in 1 .. Len(states) : states[r].idx = r - 1
       /\ \A t \in 1 .. Len(basisvectors) :
              /\ basisvectors[t].row \in 0 .. Len(states) - 1
              /\ states[basisvectors[t].row + 1].state = basisvectors[t].for

\* C6 witness: a build with reflection symmetry and user-added states that
\* registered at least four states
C6_Witness ==
    /\ Built
    /\ sym_reflection # NA
    /\ UserP \in Registered
    /\ Len(states) >= 4

\* reflection symmetry is active for a state: a parity is conserved and the
\* state is not artificial
ReflectionActive(state) == sym_reflection # NA /\ ~state.artificial

\* C7: every column of the basis-change matrix has one or two rows; two exactly
\* when reflection is active for its state and m # 0, and then the rows are a
\* state with m > 0 and its reflection partner, each with magnitude 1/sqrt(2);
\* a state with m < 0 gets no column of its own; every registered state is in
\* exactly one column; there are as many columns as diagonal energies.
C7_ColumnsHaveOneOrTwoRows ==
    Built =>
       /\ \A t \in 1 .. Len(basisvectors) :
              basisvectors[t].col \in 0 .. num_basisvectors - 1
       /\ \A c \in 0 .. num_basisvectors - 1 :
              LET rows == Column(c)
                  first == basisvectors[Min(rows)]
                  paired == ReflectionActive(first.for) /\ first.for.m # 0
              IN /\ rows # {}
                 /\ Cardinality(rows) = IF paired THEN 2 ELSE 1
                 /\ \A t \in rows :
                        /\ basisvectors[t].value.root2 = paired
                        /\ basisvectors[t].value.z \in {<<1, 0>>, <<-1, 0>>, <<0, 1>>, <<0, -1>>}
                        /\ ~paired => basisvectors[t].value.z = One
                 /\ paired =>
                        /\ first.for.m > 0
                        /\ {basisvectors[t].for : t \in rows}
                              = {first.for, getReflected(first.for)}
       /\ \A r \in 0 .. Len(states) - 1 : Cardinality(RowsOf(r)) = 1
       /\ Len(hamiltonian) = num_basisvectors
       /\ \A c \in 0 .. num_basisvectors - 1 :
              Cardinality({h \in 1 .. Len(hamiltonian) :
                              hamiltonian[h].row = c /\ hamiltonian[h].col = c}) = 1

\* C7 witness: a build under reflection symmetry with a two-row column and,
\* for the artificial state, a one-row column
C7_Witness ==
    /\ Built
    /\ sym_reflection = ODD
    /\ ArtificialState \in Registered
    /\ \E c \in 0 .. num_basisvectors - 1 : Cardinality(Column(c)) = 2

\* the registry as the enumeration alone leaves it
EnumeratedStates ==
    LET b == EnumerateN(EmptyBuild, SortedSeq(range_n), SpinOf(species))
    IN [ok |-> b.status = "ok", set |-> {b.states[r].state : r \in 1 .. Len(b.states)}]

\* the three faults of a user-added state that C8 names
UserStateFault(u) ==
    \/ u \in EnumeratedStates.set
    \/ ~u.artificial /\ u.species # species
    \/ /\ sym_reflection # NA
       /\ ~u.artificial
       /\ u.m # 0
       /\ (ARB \in sym_rotation \/ u.m \in sym_rotation)
       /\ getReflected(u) \notin states_to_add

\* C8: once the enumeration has succeeded, initializeBasis fails exactly when a
\* user-added state is already registered by the enumeration, or is not
\* artificial and of another species, or (reflection conserved) is not
\* artificial, has m # 0, is kept by the rotation symmetry and has no reflection
\* partner among the user-added states.
C8_UserStateFaultsFailTheBuild ==
    (/\ last_call.op = "initializeBasis"
     /\ range_n # {}
     /\ EnumeratedStates.ok)
    => ((outcome # "ok") <=> \E u \in states_to_add : UserStateFault(u))

\* C8 witness: the build failed because the only user-added state has m # 0 and
\* no reflection partner
C8_Witness ==
    /\ last_call.op = "initializeBasis"
    /\ outcome = "reflected_not_found"
    /\ states_to_add = {UserP}

\* the (l, j, m) of a spin-1/2 atom with l in {0, 1} (j and m doubled)
ValidCombinations ==
    {c \in (0 .. 1) \X (1 .. 3) \X (-3 .. 3) :
        /\ c[2] \in {2 * c[1] - 1, 2 * c[1] + 1}
        /\ Abs(c[3]) <= c[2]
        /\ (c[2] - c[3]) % 2 = 0}

\* C9: n restricted to {10}, l to {0, 1}, nothing else restricted, no symmetry,
\* no user-added states: the build gives 8 basis vectors, one per valid
\* (l, j, m), the basis-change matrix is the identity and the field-free
\* Hamiltonian is diagonal with the energy of each state.
C9_EndToEndBasis ==
    (/\ last_call.op = "initializeBasis"
     /\ species = Rb
     /\ range_n = {10} /\ range_l = {0, 1} /\ range_j = {} /\ range_m = {}
     /\ energy_min = DBL_LOWEST /\ energy_max = DBL_MAX
     /\ sym_reflection = NA /\ sym_rotation = {ARB}
     /\ states_to_add = {})
    => /\ outcome = "ok"
       /\ Cardinality(ValidCombinations) = 8
       /\ num_basisvectors = Cardinality(ValidCombinations)
       /\ Registered = {StateOne(Rb, 10, c[1], c[2], c[3]) : c \in ValidCombinations}
       /\ Len(states) = num_basisvectors
       /\ {[row |-> basisvectors[t].row, col |-> basisvectors[t].col,
            value |-> basisvectors[t].value] : t \in 1 .. Len(basisvectors)}
             = {[row |-> r, col |-> r, value |-> [z |-> One, root2 |-> FALSE]]
                   : r \in 0 .. num_basisvectors - 1}
       /\ Len(basisvectors) = num_basisvectors
       /\ {hamiltonian[h] : h \in 1 .. Len(hamiltonian)}
             = {[row |-> r, col |-> r, value |-> getEnergy(states[r + 1].state)]
                   : r \in 0 .. num_basisvectors - 1}
       /\ Len(hamiltonian) = num_basisvectors

\* C9 witness: the scenario was built
C9_Witness ==
    /\ Built
    /\ range_n = {10} /\ range_l = {0, 1} /\ range_j = {} /\ range_m = {}
    /\ energy_min = DBL_LOWEST /\ energy_max = DBL_MAX
    /\ sym_reflection = NA /\ sym_rotation = {ARB}
    /\ states_to_add = {}
    /\ num_basisvectors = 8

----------------------------------------------------------------------------
(* Claims about the interaction operators (checked under SpecInt) *)

\* a = sign * adjoint(b), entry by entry
IsSignedAdjoint(a, b, sign) ==
    /\ DOMAIN a = DOMAIN b
    /\ \A p \in DOMAIN a :
          /\ a[p].e2 = b[<<p[2], p[1]>>].e2
          /\ a[p].z = <<sign * b[<<p[2], p[1]>>].z[1], -sign * b[<<p[2], p[1]>>].z[2]>>

MinusOneTo(e) == IF e % 2 = 0 THEN 1 ELSE -1

----------------------------------------------------------------------------
(* Claims about one run of initializeInteraction (checked under SpecInt) *)

RuleNames == {"selectionRulesMultipoleNew", "selectionRulesMomentumNew"}
QueryNames == {"getElectricDipole", "getMagneticDipole", "getDiamagnetism",
               "getElectricMultipole"}
PrecalculateNames == {"precalculateElectricMomentum", "precalculateMagneticMomentum",
                      "precalculateDiamagnetism", "precalculateMultipole"}

\* the state is the one a run of initializeInteraction with something to do left
AfterRun == last_call.op = "initializeInteraction" /\ run # NoRun

Indices == 0 .. Len(states) - 1
IsArtificial(idx) == states[idx + 1].state.artificial

\* the pair (r, c) was handed to a selection rule in the run
Submitted(r, c) ==
    \E k \in DOMAIN run.calls :
        /\ run.calls[k].call \in RuleNames
        /\ run.calls[k].row = r
        /\ run.calls[k].col = c

\* some operator of the run takes the pair (r, c): nothing but the states being
\* artificial keeps it from the selection rules
Eligible(r, c) ==
    \/ run.erange # {} /\ (run.erange # {0} \/ r >= c)
    \/ run.brange # {} /\ (run.brange # {0} \/ r >= c)
    \/ \E i \in run.drange : i[2] # 0 \/ r >= c
    \/ run.orange # {} /\ charge # 0 /\ states[r + 1].state.m = states[c + 1].state.m

\* C11 as stated: a pair is skipped for artificial states only when both of its
\* states are artificial; a pair with one artificial state still reaches the
\* selection rule.
C11_SkippedOnlyIfBothArtificial ==
    AfterRun =>
        \A r \in Indices, c \in Indices :
            /\ (IsArtificial(r) /\ IsArtificial(c)) => ~Submitted(r, c)
            /\ (~(IsArtificial(r) /\ IsArtificial(c)) /\ Eligible(r, c)) => Submitted(r, c)

\* C11 as amended: a pair is skipped whenever at least one of its states is
\* artificial; every eligible pair of two real states reaches the selection rule.
C11_SkippedIfEitherArtificial ==
    AfterRun =>
        \A r \in Indices, c \in Indices :
            /\ (IsArtificial(r) \/ IsArtificial(c)) => ~Submitted(r, c)
            /\ (~IsArtificial(r) /\ ~IsArtificial(c) /\ Eligible(r, c)) => Submitted(r, c)

\* C11 witness: a run over a basis with an artificial state and real states, in
\* which a pair of real states reached the selection rule and a pair with one
\* artificial state was eligible
C11_Witness ==
    /\ AfterRun
    /\ \E r \in Indices, c \in Indices :
          IsArtificial(r) /\ ~IsArtificial(c) /\ Eligible(r, c)
    /\ \E r \in Indices, c \in Indices : Submitted(r, c)

\* the key of a triplet or of a cached operator has component zero
ZeroComponent(key) == key[Len(key)] = 0

IsSelfAdjoint(matrix) == IsSignedAdjoint(matrix, matrix, 1)

\* the selection rule of an operator family, on the states with idx r and c
RuleHolds(family, key, r, c) ==
    IF family = "efield" THEN selectionRulesMultipoleNew(StateAt(r), StateAt(c), 1, key[1])
    ELSE IF family = "bfield" THEN selectionRulesMomentumNew(StateAt(r), StateAt(c), key[1])
    ELSE selectionRulesMultipoleNew(StateAt(r), StateAt(c), key[1], key[2])

FieldKeysOfRun ==
    ({"efield"} \X {<<i>> : i \in run.erange})
    \cup ({"bfield"} \X {<<i>> : i \in run.brange})
    \cup ({"diamagnetism"} \X run.drange)

\* C12: for a zero-component operator the run emits triplets in the lower
\* triangle only (row >= column), one for every such pair of real states the
\* selection rule admits, and the operator cached under the key 0 is the full
\* self-adjoint matrix; for a non-zero component a triplet is emitted for every
\* pair of real states the selection rule admits, above and below the diagonal.
C12_ZeroComponentLowerTriangle ==
    AfterRun =>
        /\ \A t \in run.triplets :
              (t[1] # "multipole" /\ ZeroComponent(t[2])) => t[3][1] >= t[3][2]
        /\ \A fk \in FieldKeysOfRun : \A r \in Indices, c \in Indices :
              (~IsArtificial(r) /\ ~IsArtificial(c) /\ RuleHolds(fk[1], fk[2], r, c)
                 /\ (ZeroComponent(fk[2]) => r >= c))
              => <<fk[1], fk[2], <<r, c>>>> \in run.triplets
        /\ 0 \in run.erange => IsSelfAdjoint(interaction_efield[0])
        /\ 0 \in run.brange => IsSelfAdjoint(interaction_bfield[0])
        /\ \A i \in run.drange : i[2] = 0 => IsSelfAdjoint(interaction_diamagnetism[i])

\* C12 witness: a run built the E-field operator 0 from a triplet strictly below
\* the diagonal and the cached operator has a non-zero entry above the diagonal,
\* and it built a non-zero component from a triplet above the diagonal
C12_Witness ==
    /\ AfterRun
    /\ \E t \in run.triplets : t[1] = "efield" /\ t[2] = <<0>> /\ t[3][1] > t[3][2]
    /\ \E p \in DOMAIN interaction_efield[0] :
          p[1] < p[2] /\ interaction_efield[0][p].z # Zero
    /\ \E t \in run.triplets : ~ZeroComponent(t[2]) /\ t[3][1] < t[3][2]

\* the components and orders the claim lets a run build
NeededEfield ==
    {i \in DOMAIN efield_spherical :
        i >= 0 /\ efield_spherical[i].z # Zero /\ i \notin DOMAIN interaction_efield}
NeededBfield ==
    {i \in DOMAIN bfield_spherical :
        i >= 0 /\ bfield_spherical[i].z # Zero /\ i \notin DOMAIN interaction_bfield}
NeededDiamagnetism ==
    {i \in DOMAIN diamagnetism_terms :
        /\ i[2] >= 0
        /\ diamagnetism
        /\ diamagnetism_terms[i].z # Zero
        /\ i \notin DOMAIN interaction_diamagnetism}
NeededMultipole ==
    {order \in 1 .. ordermax : charge # 0 /\ order \notin DOMAIN interaction_multipole}
NothingNeeded ==
    NeededEfield = {} /\ NeededBfield = {} /\ NeededDiamagnetism = {} /\ NeededMultipole = {}

\* the cache keeps every entry it has, as it is
Kept(before, after) ==
    \A k \in DOMAIN before : k \in DOMAIN after /\ after[k] = before[k]

\* C13: a run of initializeInteraction builds exactly the field components whose
\* coefficient is above the tolerance (diamagnetic ones only with diamagnetism
\* enabled) and the multipole orders of a non-zero charge that are not cached
\* yet, and their partners; entries already cached are kept as they are; when
\* nothing qualifies it calls nothing and changes no cache, so a second call
\* right after the first does nothing.
C13_BuildsOnlyWhatIsNeeded ==
    [][last_call'.op = "initializeInteraction" =>
          /\ run'.erange = NeededEfield
          /\ run'.brange = NeededBfield
          /\ run'.drange = NeededDiamagnetism
          /\ run'.orange = NeededMultipole
          /\ DOMAIN interaction_efield' =
                DOMAIN interaction_efield \cup NeededEfield \cup {-i : i \in NeededEfield}
          /\ DOMAIN interaction_bfield' =
                DOMAIN interaction_bfield \cup NeededBfield \cup {-i : i \in NeededBfield}
          /\ DOMAIN interaction_diamagnetism' =
                DOMAIN interaction_diamagnetism \cup NeededDiamagnetism
                   \cup {<<i[1], -i[2]>> : i \in NeededDiamagnetism}
          /\ DOMAIN interaction_multipole' =
                DOMAIN interaction_multipole \cup NeededMultipole
                   \cup {-i : i \in NeededMultipole}
          /\ Kept(interaction_efield, interaction_efield')
          /\ Kept(interaction_bfield, interaction_bfield')
          /\ Kept(interaction_diamagnetism, interaction_diamagnetism')
          /\ Kept(interaction_multipole, interaction_multipole')
          /\ NothingNeeded => (run'.calls = <<>> /\ interaction' = interaction)
          /\ last_call.op = "initializeInteraction" =>
                (run'.calls = <<>> /\ interaction' = interaction)
    ]_vars

\* C13 witness: a second run right after a run that built operators, with the
\* cache holding them and a component that stays unbuilt for its zero coefficient
C13_Witness ==
    /\ last_call.op = "initializeInteraction"
    /\ run = NoRun
    /\ DOMAIN interaction_efield # {}
    /\ DOMAIN interaction_bfield # {}
    /\ \E i \in DOMAIN efield_spherical : i \notin DOMAIN interaction_efield

\* the precalculate call that warms up the matrix-element source for a query
PrecalculateFor(query) ==
    IF query = "getElectricDipole" THEN "precalculateElectricMomentum"
    ELSE IF query = "getMagneticDipole" THEN "precalculateMagneticMomentum"
    ELSE IF query = "getDiamagnetism" THEN "precalculateDiamagnetism"
    ELSE "precalculateMultipole"

\* C14: in a run of initializeInteraction every precalculate call is a bulk call
\* on the full state list and comes before every per-pair query, and every
\* per-pair query has a precalculate call of its kind and key in the same run.
C14_PrecalculateBeforeQueries ==
    AfterRun =>
        /\ \A a \in DOMAIN run.calls, b \in DOMAIN run.calls :
              (run.calls[a].call \in PrecalculateNames /\ run.calls[b].call \in QueryNames)
              => a < b
        /\ \A a \in DOMAIN run.calls :
              run.calls[a].call \in PrecalculateNames
              => (run.calls[a].row = -1 /\ run.calls[a].col = -1)
        /\ \A b \in DOMAIN run.calls :
              run.calls[b].call \in QueryNames
              => \E a \in DOMAIN run.calls :
                    /\ run.calls[a].call = PrecalculateFor(run.calls[b].call)
                    /\ run.calls[a].key = run.calls[b].key

\* C14 witness: a run with per-pair queries of two kinds, one of them for a
\* diamagnetic operator
C14_Witness ==
    /\ AfterRun
    /\ \E b \in DOMAIN run.calls : run.calls[b].call = "getDiamagnetism"
    /\ \E b \in DOMAIN run.calls : run.calls[b].call = "getMagneticDipole"

----------------------------------------------------------------------------
(* Claims about the parameter mutators (checked under SpecInt) *)

MutatorNames == {"setEfield", "setBfield", "enableDiamagnetism", "setIonCharge",
                 "setRydIonOrder", "setRydIonDistance"}

\* C15: a field or parameter mutator leaves the assembler dirty and changes no
\* entry of the four operator caches, nor the registered states, nor the
\* basis-change matrix, nor the field-free Hamiltonian.
C15_MutatorsKeepCachesAndBasis ==
    [][last_call'.op \in MutatorNames =>
          /\ dirty' # "Clean"
          /\ interaction_efield' = interaction_efield
          /\ interaction_bfield' = interaction_bfield
          /\ interaction_diamagnetism' = interaction_diamagnetism
          /\ interaction_multipole' = interaction_multipole
          /\ states' = states
          /\ basisvectors' = basisvectors
          /\ num_basisvectors' = num_basisvectors
          /\ hamiltonian' = hamiltonian
    ]_vars

\* C15 witness: a mutator was called on a built system whose caches hold operators
C15_Witness ==
    /\ last_call.op \in MutatorNames
    /\ dirty = "ParametersDirty"
    /\ pc = "built"
    /\ states # <<>>
    /\ DOMAIN interaction_efield # {} \/ DOMAIN interaction_bfield # {}

----------------------------------------------------------------------------
(* Claims about addInteraction (checked under SpecInt) *)

AfterAdd == last_call.op = "addInteraction"

\* |z / sqrt(2)^e2 * 10^exp10| > 1e-24, for the magnitudes below 10 of the model
ExceedsTolerance(c) ==
    /\ c.z # Zero
    /\ \/ c.exp10 > -24
       \/ c.exp10 = -24 /\ c.z[1] * c.z[1] + c.z[2] * c.z[2] > 2 ^ c.e2

TermsOf(family, key) ==
    {t \in DOMAIN hamiltonian_terms :
        hamiltonian_terms[t].family = family /\ hamiltonian_terms[t].key = key}

\* the interaction (family, key) contributes exactly the term
\* operator * coefficient * factor if wanted, and nothing otherwise
Contributes(wanted, family, key, operators, coefficient, factor) ==
    IF wanted
    THEN /\ Cardinality(TermsOf(family, key)) = 1
         /\ \A t \in TermsOf(family, key) :
               /\ key \in DOMAIN operators
               /\ hamiltonian_terms[t].operator = operators[key]
               /\ hamiltonian_terms[t].coefficient = coefficient
               /\ hamiltonian_terms[t].factor = factor
    ELSE TermsOf(family, key) = {}

\* the factor the claim gives a diamagnetic term
ClaimedFactor(key) ==
    IF key[2] \in {1, -1} THEN "sqrt(3)"
    ELSE IF key[2] \in {2, -2} THEN "sqrt(1.5)"
    ELSE "1"

\* the terms of the fields: the operator q goes with the field component -q,
\* the diamagnetic operator (k, q) with the coupling coefficient (k, q)
FieldTermsAsClaimed ==
    /\ \A q \in FieldKeys :
          /\ Contributes(ExceedsTolerance(Coefficient(efield_spherical[-q], 0)),
                         "efield", q, interaction_efield,
                         Coefficient(efield_spherical[-q], 0), "1")
          /\ Contributes(ExceedsTolerance(Coefficient(bfield_spherical[-q], 0)),
                         "bfield", q, interaction_bfield,
                         Coefficient(bfield_spherical[-q], 0), "1")
    /\ \A key \in DiamagnetismKeys :
          IF diamagnetism
          THEN Contributes(ExceedsTolerance(Coefficient(diamagnetism_terms[key], 0)),
                           "diamagnetism", key, interaction_diamagnetism,
                           Coefficient(diamagnetism_terms[key], 0), ClaimedFactor(key))
          ELSE TermsOf("diamagnetism", key) = {}

\* charge / distance^(order + 1); it is 0 for no charge and for the distance
\* std::numeric_limits<double>::max()
MultipoleCoefficient(order) ==
    IF charge = 0 \/ distance = DBL_MAX THEN Coefficient(ZeroScalar, 0)
    ELSE Coefficient(Scaled(<<charge, 0>>, 0), -(distance * (order + 1)))

\* every term belongs to one of the interactions
NoOtherTerms ==
    \A t \in DOMAIN hamiltonian_terms :
        \/ hamiltonian_terms[t].family \in {"efield", "bfield"}
              /\ hamiltonian_terms[t].key \in FieldKeys
        \/ hamiltonian_terms[t].family = "diamagnetism"
              /\ hamiltonian_terms[t].key \in DiamagnetismKeys
        \/ hamiltonian_terms[t].family = "multipole"
              /\ hamiltonian_terms[t].key \in 1 .. ordermax

\* C17 as stated: addInteraction adds exactly one term for each interaction whose
\* coefficient exceeds 1e-24 in absolute value (the diamagnetic ones only with
\* diamagnetism enabled) and none for a coefficient at or below it, the ion
\* multipole included; the term is the cached operator times the coefficient,
\* times sqrt(3) for the diamagnetic (2, +-1), sqrt(1.5) for (2, +-2).
C17_TermsIffAboveTolerance ==
    AfterAdd =>
        /\ FieldTermsAsClaimed
        /\ \A order \in 1 .. ordermax :
              Contributes(ExceedsTolerance(MultipoleCoefficient(order)),
                          "multipole", order, interaction_multipole,
                          MultipoleCoefficient(order), "1")
        /\ NoOtherTerms

\* C17 as amended: the same for the field terms; the ion multipole contributes
\* one term for every order 1..ordermax whenever the charge is not 0 and the
\* distance is not the largest double, whatever the size of its coefficient.
C17_FieldTermsIffAboveTolerance ==
    AfterAdd =>
        /\ FieldTermsAsClaimed
        /\ \A order \in 1 .. ordermax :
              Contributes(charge # 0 /\ distance # DBL_MAX,
                          "multipole", order, interaction_multipole,
                          MultipoleCoefficient(order), "1")
        /\ NoOtherTerms

\* C17 witness: an assembly with a diamagnetic term carrying sqrt(3), one
\* carrying sqrt(1.5), and a field component left out for its zero coefficient
C17_Witness ==
    /\ AfterAdd
    /\ \E t \in DOMAIN hamiltonian_terms : hamiltonian_terms[t].factor = "sqrt(3)"
    /\ \E t \in DOMAIN hamiltonian_terms : hamiltonian_terms[t].factor = "sqrt(1.5)"
    /\ \E q \in FieldKeys : TermsOf("efield", q) = {}

----------------------------------------------------------------------------
(* Claims about incorporate *)

\* the other system of the step's incorporate call
Incorporated == last_call'.op = "incorporate"

DiffersInParameters(other) ==
    \/ species # other.species
    \/ efield # other.efield
    \/ bfield # other.bfield
    \/ diamagnetism # other.diamagnetism

\* C18: incorporate fails exactly when the other system differs in species,
\* electric field, magnetic field or the diamagnetism flag, and a failed call
\* leaves the reflection parity, the conserved momenta and the four caches of
\* interaction operators as they were.
C18_IncorporateFailsUnchanged ==
    [][Incorporated =>
          /\ (outcome' # "ok") <=> DiffersInParameters(last_call'.other)
          /\ outcome' # "ok" =>
                /\ sym_reflection' = sym_reflection
                /\ sym_rotation' = sym_rotation
                /\ interaction_efield' = interaction_efield
                /\ interaction_bfield' = interaction_bfield
                /\ interaction_diamagnetism' = interaction_diamagnetism
                /\ interaction_multipole' = interaction_multipole]_vars

\* a call that failed on the last of the four checks, with operators cached
C18_Witness ==
    /\ last_call.op = "incorporate"
    /\ outcome = "different_diamagnetism"
    /\ DOMAIN interaction_efield # {} \/ DOMAIN interaction_bfield # {}

IncorporatedOk == Incorporated /\ outcome' = "ok"

ParityAsClaimed ==
    sym_reflection' = IF sym_reflection # last_call'.other.sym_reflection
                      THEN NA ELSE sym_reflection

WarnedAsClaimed ==
    warned' <=> /\ sym_reflection # last_call'.other.sym_reflection
                /\ sym_rotation # last_call'.other.sym_rotation

\* C19 as stated: after a successful incorporate the parity is NA if the
\* parities differed, the momenta are {ARB} if the momentum sets differed, an
\* equal symmetry is kept, and the warning is raised exactly when both differed.
C19_MomentaBecomeArb ==
    [][IncorporatedOk =>
          /\ ParityAsClaimed
          /\ sym_rotation' = IF sym_rotation # last_call'.other.sym_rotation
                             THEN {ARB} ELSE sym_rotation
          /\ WarnedAsClaimed]_vars

\* C19: after a successful incorporate the parity is NA if the parities
\* differed; where the momentum sets differed the momenta are {ARB} if either
\* set contains ARB and the union of the two sets otherwise; an equal symmetry
\* is kept; the warning is raised exactly when both symmetries differed.
C19_MomentaBecomeArbOrUnion ==
    [][IncorporatedOk =>
          /\ ParityAsClaimed
          /\ sym_rotation' =
                IF sym_rotation = last_call'.other.sym_rotation THEN sym_rotation
                ELSE IF ARB \in sym_rotation \cup last_call'.other.sym_rotation
                     THEN {ARB}
                     ELSE sym_rotation \cup last_call'.other.sym_rotation
          /\ WarnedAsClaimed]_vars

\* a successful call with a warning whose momenta were merged: they hold no
\* ARB and are not the other system's, so the two sets differed
C19_Witness ==
    /\ last_call.op = "incorporate"
    /\ outcome = "ok"
    /\ warned
    /\ sym_reflection = NA
    /\ ARB \notin sym_rotation
    /\ sym_rotation # last_call.other.sym_rotation

----------------------------------------------------------------------------
(* Claims about the pending-change state *)

SymmetryMutatorNames == {"setConservedParityUnderReflection",
                         "setConservedMomentaUnderRotation"}

\* the stronger of two pending changes
Stronger(a, b) ==
    IF "SymmetryDirty" \in {a, b} THEN "SymmetryDirty"
    ELSE IF "ParametersDirty" \in {a, b} THEN "ParametersDirty"
    ELSE "Clean"

\* the change a step's call makes; a momenta call rejected for its argument
\* changes nothing
ChangeMade ==
    IF last_call'.op \in MutatorNames THEN "ParametersDirty"
    ELSE IF last_call'.op \in SymmetryMutatorNames /\ outcome' # "arb_misuse"
    THEN "SymmetryDirty"
    ELSE "Clean"

Diagonalized == last_call'.op = "diagonalize" /\ outcome' = "ok"

----------------------------------------------------------------------------
(* Claims about serialization *)

SameMatrix(a, b) ==
    /\ a.rows = b.rows
    /\ a.cols = b.cols
    /\ DOMAIN a.val = DOMAIN b.val
    /\ \A p \in DOMAIN a.val : a.val[p] = b.val[p]

\* C20: the matrix that deserialize fills from the bytes of serialize(x) has
\* the dimensions, the stored positions and the values of x in entries and in
\* basis and the two content hashes of x, and serializing it gives the same
\* bytes again.
C20_RoundTrip ==
    restored # NoMatrix =>
        /\ SameMatrix(restored.entries, hmatrix.entries)
        /\ SameMatrix(restored.basis, hmatrix.basis)
        /\ hashEntries(restored) = hashEntries(hmatrix)
        /\ hashBasis(restored) = hashBasis(hmatrix)
        /\ bytes.hash_entries = hashEntries(restored)
        /\ bytes.hash_basis = hashBasis(restored)
        /\ Serialized(restored) = bytes

\* a complex matrix with a value of non-zero imaginary part off the diagonal
\* of entries and an explicitly stored zero in basis was read back
C20_Witness ==
    /\ restored # NoMatrix
    /\ restored.complex
    /\ <<1, 0>> \in DOMAIN restored.entries.val
    /\ restored.entries.val[<<1, 0>>][2] # 0
    /\ <<0, 1>> \notin DOMAIN restored.entries.val
    /\ <<MaxDim - 1, 0>> \in DOMAIN restored.basis.val

----------------------------------------------------------------------------
(* Claims about the field setters *)

SetBfieldOk == last_call'.op = "setBfield" /\ outcome' = "ok"

\* the Cartesian vector, the three spherical components and the diamagnetic
\* coefficients are those of the field of the call
MagneticStateOfCall ==
    /\ DOMAIN bfield_spherical' = {-1, 0, 1}
    /\ bfield_spherical' = changeToSphericalbasis(bfield')
    /\ diamagnetism_terms' = DiamagnetismTerms(changeToSphericalbasis(bfield'))

\* C22 as stated: after a successful setBfield the magnetic-field state holds
\* the vector, its three spherical components and exactly five diamagnetic
\* coefficients, all of the field of that call.
C22_FiveDiamagnetismTerms ==
    [][SetBfieldOk =>
          /\ MagneticStateOfCall
          /\ Cardinality(DOMAIN diamagnetism_terms') = 5]_vars

\* C22: after a successful setBfield the magnetic-field state holds the
\* vector, its three spherical components and exactly six diamagnetic
\* coefficients, one of rank 0 and five of rank 2, all of the field of that
\* call.
C22_SixDiamagnetismTerms ==
    [][SetBfieldOk =>
          /\ MagneticStateOfCall
          /\ DOMAIN diamagnetism_terms' =
                {<<0, 0>>} \cup {<<2, q>> : q \in -2 .. 2}]_vars

\* a second setBfield, with a y component, after one with another field
C22_Witness ==
    /\ last_call.op = "setBfield"
    /\ outcome = "ok"
    /\ mutations = 2
    /\ bfield = <<2, 1, 1>>
    /\ efield = <<0, 0, 0>>
    /\ diamagnetism_terms[<<2, 2>>].z # Zero

----------------------------------------------------------------------------
(* Claims about the upkeep of the caches *)

\* the cache holds c exactly if it holds -c, and M(-c) = (-1)^c * adjoint(M(c))
PairedByComponent(cache) ==
    \A c \in DOMAIN cache :
        /\ -c \in DOMAIN cache
        /\ c # 0 => IsSignedAdjoint(cache[-c], cache[c], MinusOneTo(c))

PairedDiamagnetism ==
    \A k \in DOMAIN interaction_diamagnetism :
        /\ <<k[1], -k[2]>> \in DOMAIN interaction_diamagnetism
        /\ k[2] # 0 =>
              IsSignedAdjoint(interaction_diamagnetism[<<k[1], -k[2]>>],
                              interaction_diamagnetism[k], MinusOneTo(k[2]))

\* new = adjoint(T) * old * T, entry by entry
IsTransformOf(new, T, old) ==
    /\ DOMAIN new = (DOMAIN T) \X (DOMAIN T)
    /\ \A p \in DOMAIN new :
          LET q == <<T[p[1]].row, T[p[2]].row>>
          IN /\ new[p].e2 = old[q].e2
             /\ new[p].z = Mul(Conj(T[p[1]].value), Mul(old[q].z, T[p[2]].value))

CacheTransformed(new, T, old) ==
    /\ DOMAIN new = DOMAIN old
    /\ \A k \in DOMAIN old : IsTransformOf(new[k], T, old[k])

\* C23: the E-field, B-field and diamagnetic caches always hold a component
\* together with its negative, the two related by the adjoint relation of the
\* build; transformInteraction replaces every operator M of the four caches by
\* adjoint(T) * M * T and keeps the keys; deleteInteraction empties the four
\* caches.
C23_CachesStayPaired ==
    /\ [](/\ PairedByComponent(interaction_efield)
          /\ PairedByComponent(interaction_bfield)
          /\ PairedDiamagnetism)
    /\ [][last_call'.op = "transformInteraction" =>
             /\ CacheTransformed(interaction_efield', last_call'.transformator,
                                 interaction_efield)
             /\ CacheTransformed(interaction_bfield', last_call'.transformator,
                                 interaction_bfield)
             /\ CacheTransformed(interaction_diamagnetism', last_call'.transformator,
                                 interaction_diamagnetism)
             /\ CacheTransformed(interaction_multipole', last_call'.transformator,
                                 interaction_multipole)]_vars
    /\ [][last_call'.op = "deleteInteraction" =>
             /\ interaction_efield' = EmptyMap
             /\ interaction_bfield' = EmptyMap
             /\ interaction_diamagnetism' = EmptyMap
             /\ interaction_multipole' = EmptyMap]_vars

\* operators were transformed by the exchange with a phase, and the magnetic
\* operator of component 1 couples the two exchanged basis vectors
C23_Witness ==
    /\ last_call.op = "transformInteraction"
    /\ last_call.transformator = SwapTransformator
    /\ 1 \in DOMAIN interaction_bfield
    /\ <<2, 1>> \in DOMAIN interaction_diamagnetism
    /\ \E p \in {<<0, 1>>, <<1, 0>>} : interaction_bfield[1][p].z # Zero

----------------------------------------------------------------------------
(* Claims about the binding *)

\* the restriction a step's call set
RestrictionSet ==
    IF last_call'.op = "restrictN" THEN range_n'
    ELSE IF last_call'.op = "restrictL" THEN range_l'
    ELSE IF last_call'.op = "restrictJ" THEN range_j'
    ELSE range_m'

\* C24: the array form of restrictN, restrictL, restrictJ and restrictM
\* restricts the quantum number to the set of all elements of the array,
\* whatever its length.
C24_ArrayRestrictsToAllElements ==
    [][last_call'.op \in {"restrictN", "restrictL", "restrictJ", "restrictM"} =>
          RestrictionSet = AllElements(last_call'.array)]_vars

----------------------------------------------------------------------------
(* Claims about user-added artificial states and the enumeration *)

\* the triplets of the basis-change matrix written for a state
TripletsFor(state) == {t \in 1 .. Len(basisvectors) : basisvectors[t].for = state}

\* the second loop over the user-added states was entered by the last build
AddLoopEntered ==
    /\ last_call.op = "initializeBasis"
    /\ outcome \in {"ok", "reflected_not_found"}

\* C25: a user-added artificial state is added as one unsymmetrized basis
\* vector, a single row with coefficient 1 in a column of its own, with energy
\* 0, whatever the parity and the momenta are; the build warns exactly when the
\* parity is not NA or the momenta are not ARB, and it leaves the stored
\* symmetries as they were.
C25_ArtificialStateFallback ==
    /\ []((Built /\ ArtificialState \in states_to_add) =>
             /\ Cardinality(TripletsFor(ArtificialState)) = 1
             /\ \A t \in TripletsFor(ArtificialState) :
                    /\ basisvectors[t].value = [z |-> One, root2 |-> FALSE]
                    /\ Column(basisvectors[t].col) = {t}
                    /\ states[basisvectors[t].row + 1].state = ArtificialState
                    /\ \A h \in 1 .. Len(hamiltonian) :
                           hamiltonian[h].col = basisvectors[t].col
                              => hamiltonian[h].value = 0)
    /\ []((AddLoopEntered /\ ArtificialState \in states_to_add) =>
             (warned <=> (sym_reflection # NA \/ ARB \notin sym_rotation)))
    /\ [][last_call'.op = "initializeBasis" =>
             /\ sym_reflection' = sym_reflection
             /\ sym_rotation' = sym_rotation]_vars

\* C25 witness: a build that warned and added the artificial state next to a
\* symmetrized pair, the momenta being restricted to +-1/2 and the parity odd
C25_Witness ==
    /\ Built
    /\ warned
    /\ sym_reflection = ODD
    /\ sym_rotation = {-1, 1}
    /\ ArtificialState \in Registered
    /\ UserP \in Registered

\* the (n, l, j) the three outer loops of the enumeration reach
LevelsOfL(n, l) ==
    {<<n, l, j>> : j \in {j \in (IF range_j = {}
                                 THEN rangeHalf(Abs(2 * l - SpinOf(species)),
                                                2 * l + SpinOf(species))
                                 ELSE range_j) :
                             /\ ValidJ(l, j, SpinOf(species))
                             /\ checkIsEnergyValid(getEnergy(
                                    StateOne(species, n, l, j, SpinOf(species))))}}
LevelsOfN(n) ==
    UNION {LevelsOfL(n, l) : l \in {l \in (IF range_l = {} THEN range(0, n - 1)
                                           ELSE range_l) : l <= n - 1 /\ l >= 0}}
EnumeratedLevels == UNION {LevelsOfN(n) : n \in range_n}

\* the valid states with m # 0 whose opposite momentum the allowed m set of
\* their (n, l, j) lacks
WithoutMirrorAt(x) ==
    {StateOne(species, x[1], x[2], x[3], m) :
        m \in {m \in RangeAllowedM(x[3]) :
                  m # 0 /\ Abs(m) <= x[3] /\ -m \notin RangeAllowedM(x[3])}}
WithoutMirror == UNION {WithoutMirrorAt(x) : x \in EnumeratedLevels}

\* the order the enumeration passes over the states
Before(a, b) == TupleLess(<<a.n, a.l, a.j, a.m>>, <<b.n, b.l, b.j, b.m>>)

\* C26: with a parity conserved, a build that starts the enumeration fails with
\* "momentum required by symmetries cannot be found" exactly when the
\* enumeration reaches a valid state with m # 0 whose opposite momentum is
\* missing from the allowed m set, and nothing at or after that state has been
\* registered; without a conserved parity that error is never raised.
C26_MissingMirrorFailsTheEnumeration ==
    (last_call.op = "initializeBasis" /\ range_n # {}) =>
       /\ (outcome = "momentum_not_found")
             <=> (sym_reflection # NA /\ WithoutMirror # {})
       /\ outcome = "momentum_not_found" =>
             \E o \in WithoutMirror : \A r \in Registered : Before(r, o)

\* C26 witness: with the m restriction {-1/2, 1/2, 3/2} and unrestricted
\* momenta the enumeration registered the states of a j = 1/2 level and then
\* failed at m = 3/2 of a j = 3/2 level
C26_Witness ==
    /\ last_call.op = "initializeBasis"
    /\ outcome = "momentum_not_found"
    /\ ARB \in sym_rotation
    /\ range_m = {-1, 1, 3}
    /\ Len(states) > 0

----------------------------------------------------------------------------
(* Claims about what a failed call leaves behind *)

\* C27: the stored reflection parity and the stored momentum set are compatible
\* in every reachable state, also after a symmetry setter has failed: a rejected
\* value is never left stored.
C27_StoredSymmetriesCompatible ==
    isRefelectionAndRotationCompatible(sym_reflection, sym_rotation)

\* the spherical components stored for a Cartesian vector: those of its
\* transform, or none yet for the zero vector of a fresh system
SphericalOf(spherical, field) ==
    \/ spherical = EmptyMap /\ field = <<0, 0, 0>>
    \/ spherical = changeToSphericalbasis(field)

\* the diamagnetic coefficients stored for a magnetic field
CoefficientsOf(terms, field) ==
    \/ terms = EmptyMap /\ field = <<0, 0, 0>>
    \/ terms = DiamagnetismTerms(changeToSphericalbasis(field))

FieldStateConsistent ==
    /\ SphericalOf(efield_spherical, efield)
    /\ SphericalOf(bfield_spherical, bfield)
    /\ CoefficientsOf(diamagnetism_terms, bfield)

\* a step of setEfield or setBfield that failed
FieldCallFailed == last_call'.op \in {"setEfield", "setBfield"} /\ outcome' # "ok"

\* C28: the stored spherical components are always the transform of the stored
\* Cartesian vector and the diamagnetic coefficients those of the stored
\* magnetic field; a setEfield or setBfield call that fails leaves the
\* Cartesian vectors, the spherical components, the coefficients and the dirty
\* state as they were.
C28_FieldStateStaysConsistent ==
    /\ []FieldStateConsistent
    /\ [][FieldCallFailed =>
             /\ efield' = efield
             /\ bfield' = bfield
             /\ efield_spherical' = efield_spherical
             /\ bfield_spherical' = bfield_spherical
             /\ diamagnetism_terms' = diamagnetism_terms
             /\ dirty' = dirty]_vars

----------------------------------------------------------------------------
(* Claims about the reads of addInteraction *)

\* the cache of a family of operators
CacheOf(family) ==
    IF family = "efield" THEN interaction_efield
    ELSE IF family = "bfield" THEN interaction_bfield
    ELSE IF family = "diamagnetism" THEN interaction_diamagnetism
    ELSE interaction_multipole

Families == {"efield", "bfield", "diamagnetism", "multipole"}

\* C29: an addInteraction that follows initializeInteraction reads, from each
\* of the four caches, only keys that the cache holds, and leaves the keys and
\* the operators of the four caches as they were.
C29_AddInteractionReadsPopulatedKeys ==
    [][last_call'.op = "addInteraction" =>
          /\ \A family \in Families : KeysRead(family) \subseteq DOMAIN CacheOf(family)
          /\ UNCHANGED interaction]_vars

\* C29 witness: an addInteraction has added terms of the negative components
\* of both fields and of the diamagnetic operators of rank 2
C29_Witness ==
    /\ last_call.op = "addInteraction"
    /\ \E t \in DOMAIN hamiltonian_terms :
           hamiltonian_terms[t].family = "efield" /\ hamiltonian_terms[t].key = -1
    /\ \E t \in DOMAIN hamiltonian_terms :
           hamiltonian_terms[t].family = "bfield" /\ hamiltonian_terms[t].key = 0
    /\ \E t \in DOMAIN hamiltonian_terms :
           hamiltonian_terms[t].family = "diamagnetism"
              /\ hamiltonian_terms[t].key = <<2, -2>>

----------------------------------------------------------------------------
(* Claims about the combined symmetries *)

\* the symmetries the other system has after it has incorporated this one
ParityOfSwapped(other) ==
    IF other.sym_reflection # sym_reflection THEN NA ELSE other.sym_reflection

MomentaOfSwapped(other) ==
    IF other.sym_rotation # sym_rotation
    THEN CombinedRotation(other.sym_rotation, sym_rotation)
    ELSE other.sym_rotation

====
